---- MODULE Spec2Model ----
(***************************************************************************)
(* Verification model of the telematics-io-manager server: the JWT +       *)
(* refresh-token session handlers, the authorization gate, the audit       *)
(* recorder and the CRUD route handlers that use them.                     *)
(*                                                                         *)
(* Time is counted in minutes.  A nullable value is <<>> (NULL/undefined)  *)
(* or <<v>>.  A JSON object is a function from key paths to nullable       *)
(* scalars; a JSON text is the set of <<path, scalar>> pairs it spells.    *)
(***************************************************************************)
EXTENDS Integers, Sequences, FiniteSets, TLC

VARIABLES
    now,             \* wall clock (minutes)
    ticks,           \* number of clock advances so far
    Users,           \* table Users:  UserID -> row
    Roles,           \* table Roles:  RoleID -> row
    UserRoles,       \* table UserRoles: set of <<UserID, RoleID>>
    RolePermissions, \* table RolePermissions: set of <<RoleID, PermissionID>>
    RefreshTokens,   \* table RefreshTokens: sequence of rows, in insertion order
    AuditLogs,       \* table AuditLogs: sequence of rows, in insertion order
    Vendor,          \* table Vendor: VendorID -> row
    Product,         \* table Product: ProductID -> row
    IOUniversal,     \* table IOUniversal: IOID -> row
    IOMapping,       \* table IOMapping: MappingID -> row
    cookies,         \* the browser's cookie jar (accessToken, refreshToken)
    sessions,        \* the login responses handed out so far, in order
    req,             \* the request handled last
    resp,            \* the response to it
    client,          \* the browser's session controller (AuthProvider state)
    calls,           \* its calls in flight, and the call answered last
    replacing,       \* the PUT /roles/:id or PUT /users/:id between its DELETE
                     \* and its response, if any
    handling,        \* the PUT or DELETE of a vendor that each concurrent handler
                     \* has in progress between its SELECT and its mutation, if any
    ui               \* the page the browser shows: path, Navbar, Session Expired modal

dbVars   == <<Users, Roles, UserRoles, RolePermissions>>
authVars == <<RefreshTokens, cookies, sessions>>
entVars  == <<Vendor, Product, IOUniversal, IOMapping>>
clientVars == <<client, calls, ui>>
vars == <<now, ticks, Users, Roles, UserRoles, RolePermissions, RefreshTokens,
          AuditLogs, Vendor, Product, IOUniversal, IOMapping, cookies,
          sessions, req, resp, client, calls, replacing, handling, ui>>

-----------------------------------------------------------------------------
(* Bounds of the model *)

MaxAuditRows == 2
MaxSessions == 1
MaxTicks == 1
MaxInFlight == 1
MaxHandlers == 2

(* Program constants *)

JWT_EXPIRES_IN == 15
REFRESH_TOKEN_EXPIRES_IN == 10080
SEVEN_DAYS == 10080

-----------------------------------------------------------------------------
(* Nullable values *)

None == <<>>
Some(v) == <<v>>
IsSome(x) == x # <<>>
Val(x) == x[1]

-----------------------------------------------------------------------------
(* Token Issuer: src/lib/auth.ts *)

JWT_SECRET == "your-super-secret-jwt-key-change-in-production"

\* jwt.sign(payload, secret, {expiresIn}): the payload, iat, exp and a signature
sign(payload, secret, expiresIn) ==
    [userId |-> payload.userId, username |-> payload.username,
     iat |-> now, exp |-> now + expiresIn, sig |-> secret]

generateAccessToken(payload) == sign(payload, JWT_SECRET, JWT_EXPIRES_IN)

generateRefreshToken(payload) == sign(payload, JWT_SECRET, REFRESH_TOKEN_EXPIRES_IN)

\* jwt.verify: the payload when the signature matches and the token has not
\* expired, null otherwise (the exception is caught)
verifyToken(token) ==
    IF token.sig = JWT_SECRET /\ now < token.exp
    THEN Some([userId |-> token.userId, username |-> token.username])
    ELSE None

\* crypto.randomBytes(64).toString('hex'): a hex string, never twice the same
generateRandomToken(n) == [hex |-> n]

\* bcrypt.hash / bcrypt.compare
hashPassword(password) == [alg |-> "bcrypt", of |-> password]
verifyPassword(password, hash) == hash.of = password

-----------------------------------------------------------------------------
(* The relational store *)

UserIDs == {1, 2}
RoleIDs == {1, 2}
PermissionIDs == {1, 2, 3, 4, 5, 6}

\* table Permissions (read-only catalog): PermissionID -> PermissionName, the
\* dotted name "module.action" held as <<module, action>>
PermissionName(pid) ==
    CASE pid = 1 -> <<"audit_logs", "read">>
      [] pid = 2 -> <<"users", "read">>
      [] pid = 3 -> <<"users", "update">>
      [] pid = 4 -> <<"roles", "update">>
      [] pid = 5 -> <<"roles", "delete">>
      [] pid = 6 -> <<"vendors", "read">>

PermissionNames == {PermissionName(pid) : pid \in PermissionIDs}

\* The Permissions constants used by the routes
AUDIT_READ == <<"audit_logs", "read">>
USERS_READ == <<"users", "read">>
USERS_UPDATE == <<"users", "update">>
ROLES_UPDATE == <<"roles", "update">>
ROLES_DELETE == <<"roles", "delete">>

NoRole == [present |-> FALSE, RoleName |-> "", IsSystem |-> FALSE]
NoRow  == [present |-> FALSE, Name |-> ""]

Usernames == {"admin", "bob", "ghost"}
Passwords == {"admin123", "bobpw", "wrong"}

\* The sequence of the elements of a finite set of integers, ascending
RECURSIVE Ascending(_)
Ascending(S) ==
    IF S = {} THEN <<>>
    ELSE LET m == CHOOSE x \in S : \A y \in S : x <= y
         IN <<m>> \o Ascending(S \ {m})

Range(seq) == {seq[i] : i \in 1..Len(seq)}

-----------------------------------------------------------------------------
(* Cookies and requests *)

NoCookies == [accessToken |-> None, refreshToken |-> None]

\* setAuthCookies / clearAuthCookies of src/lib/auth.ts
setAuthCookies(accessToken, refreshToken) ==
    [accessToken |-> Some(accessToken), refreshToken |-> Some(refreshToken)]
clearAuthCookies == NoCookies

\* A token nobody signed with the server's secret
ForgedToken == [userId |-> 1, username |-> "admin", iat |-> 0,
                exp |-> 2 * REFRESH_TOKEN_EXPIRES_IN + JWT_EXPIRES_IN + 1, sig |-> "guess"]

\* The tokens a client may hold: those of a login response, those in the jar
KnownAccessTokens ==
    {sessions[i].accessToken : i \in 1..Len(sessions)}
      \cup (IF IsSome(cookies.accessToken) THEN {Val(cookies.accessToken)} ELSE {})
KnownRefreshTokens ==
    {sessions[i].refreshToken : i \in 1..Len(sessions)}
      \cup (IF IsSome(cookies.refreshToken) THEN {Val(cookies.refreshToken)} ELSE {})

\* A request: the Authorization header (none, or a scheme and a credential) and
\* the accessToken / refreshToken cookies
NoHeader == None
Bearer(token) == Some([scheme |-> "Bearer", credentials |-> Some(token)])

Request(header, accessCookie, refreshCookie) ==
    [authorization |-> header, accessToken |-> accessCookie,
     refreshToken |-> refreshCookie]

\* The requests the model sends: anonymous, the browser's jar, a known access
\* token as Bearer header, a known refresh token alone, a forged token
Requests ==
    {Request(NoHeader, None, None),
     Request(NoHeader, cookies.accessToken, cookies.refreshToken),
     Request(Bearer(ForgedToken), None, None)}
      \cup {Request(Bearer(t), None, None) : t \in KnownAccessTokens}
      \cup {Request(NoHeader, None, Some(t)) : t \in KnownRefreshTokens}

NoReq == [op |-> "none"]
NotReplacing == [pc |-> "idle"]
NotHandling == [pc |-> "idle"]
NoResp == [status |-> 0, success |-> FALSE, error |-> ""]

Json(status, success, error) ==
    [status |-> status, success |-> success, error |-> error]

-----------------------------------------------------------------------------
(* The browser's session controller as AuthProvider constructs it *)

\* The calls of the controller that wait for the server
ClientCalls == {"refreshUser", "checkSession", "login", "logout"}

\* useState(null), useState(true), useState(false), useRef(false)
NewController ==
    [user |-> None, isLoading |-> TRUE, sessionExpired |-> FALSE,
     wasLoggedInRef |-> FALSE]

\* The effect of the first render has called refreshUser(); nothing is answered
\* yet, no successful authentication has been observed
MountedCalls ==
    [pending |-> [k \in ClientCalls |-> IF k = "refreshUser" THEN 1 ELSE 0],
     observed |-> FALSE,
     last |-> [op |-> "none"]]

\* The page as the browser opens the application at its home path: the layout
\* shows "Loading..." until refreshUser() is answered, the Navbar is not mounted
FirstPage ==
    [pathname |-> "/", navbar |-> FALSE, isSessionExpiredModalOpen |-> FALSE,
     clicked |-> None, pushed |-> None]

-----------------------------------------------------------------------------
(* Init: the seeded store, nobody logged in *)

\* The store seeded with the permission sets of the two roles
Seeded(adminPermissions, auditorPermissions) ==
    /\ now = 0
    /\ ticks = 0
    /\ Users = [u \in UserIDs |->
                 IF u = 1
                 THEN [present |-> TRUE, Username |-> "admin",
                       PasswordHash |-> hashPassword("admin123"), IsActive |-> TRUE]
                 ELSE [present |-> TRUE, Username |-> "bob",
                       PasswordHash |-> hashPassword("bobpw"), IsActive |-> TRUE]]
    /\ Roles = [r \in RoleIDs |->
                 IF r = 1
                 THEN [present |-> TRUE, RoleName |-> "Administrator", IsSystem |-> TRUE]
                 ELSE [present |-> TRUE, RoleName |-> "Auditor", IsSystem |-> FALSE]]
    /\ UserRoles = {<<1, 1>>, <<2, 2>>}
    /\ RolePermissions = {<<1, pid>> : pid \in adminPermissions}
                            \cup {<<2, pid>> : pid \in auditorPermissions}
    /\ RefreshTokens = <<>>
    /\ AuditLogs = <<>>
    /\ Vendor = [i \in {1} |-> NoRow]
    /\ Product = [i \in {1} |-> NoRow]
    /\ IOUniversal = [i \in {1} |-> NoRow]
    /\ IOMapping = [i \in {1} |-> NoRow]
    /\ cookies = NoCookies
    /\ sessions = <<>>
    /\ req = NoReq
    /\ resp = NoResp
    /\ client = NewController
    /\ calls = MountedCalls
    /\ replacing = NotReplacing
    /\ handling = [h \in 1..MaxHandlers |-> NotHandling]
    /\ ui = FirstPage

\* The shipped seed: Administrator holds every permission, Auditor audit_logs.read
Init == Seeded(PermissionIDs, {1})

-----------------------------------------------------------------------------
(* JSON objects and texts *)

\* An object maps key paths (<<"k">>, or <<"k", "k2">> for a key of a nested
\* object) to nullable scalars; a path with value None is an undefined property.

\* JSON.stringify: the defined properties, each scalar spelled out
stringify(obj) ==
    {<<p, ToString(Val(obj[p]))>> : p \in {q \in DOMAIN obj : IsSome(obj[q])}}

\* The keys that occur in a JSON text, at any depth
KeysOf(text) == UNION {Range(pv[1]) : pv \in text}

\* delete obj.key: the property and everything below it
delete(obj, key) == [p \in {q \in DOMAIN obj : q[1] # key} |-> obj[p]]

\* sanitizeForAudit of src/lib/auditLog.ts
sanitizeForAudit(obj) ==
    stringify(delete(delete(delete(delete(obj, "Password"), "PasswordHash"),
                            "accessToken"), "refreshToken"))

-----------------------------------------------------------------------------
(* Audit Recorder: src/lib/auditLog.ts *)

\* The faults a request can meet: none; the store fails at the permission
\* query of the gate ("auth"), at the handler's own first statement ("query"),
\* at the audit insert ("audit"); JSON.stringify of the request body throws, as
\* it does on a body nested deeper than its recursion allows ("serialize")

\* The row createAuditLog inserts
AuditRow(log) ==
    [UserID |-> IF IsSome(log.UserID) /\ Val(log.UserID) # 0 THEN log.UserID ELSE None,
     Username |-> IF IsSome(log.Username) /\ Val(log.Username) # "" THEN log.Username ELSE None,
     Action |-> log.Action,
     Module |-> log.Module,
     RecordID |-> log.RecordID,
     OldValue |-> log.OldValue,
     NewValue |-> log.NewValue]

\* createAuditLog: the table after the call; a failing insert is caught and
\* leaves the table as it was
createAuditLog(log, fault) ==
    IF fault = "audit" THEN AuditLogs ELSE Append(AuditLogs, AuditRow(log))

AuthLog(userId, username, action) ==
    [UserID |-> userId, Username |-> username, Action |-> action, Module |-> "Auth",
     RecordID |-> None, OldValue |-> None, NewValue |-> None]

-----------------------------------------------------------------------------
(* Permission Resolver and Authorization Gate: src/lib/authMiddleware.ts *)

RolesOf(userId) == {r \in RoleIDs : <<userId, r>> \in UserRoles}
PermissionsOfRole(r) == {pid \in PermissionIDs : <<r, pid>> \in RolePermissions}

\* The rows of UserRoles JOIN RolePermissions JOIN Permissions for one user: one
\* PermissionName per (role, permission) pair
RECURSIVE JoinRows(_)
JoinRows(roleSeq) ==
    IF roleSeq = <<>> THEN <<>>
    ELSE LET pids == Ascending(PermissionsOfRole(Head(roleSeq)))
         IN [i \in 1..Len(pids) |-> PermissionName(pids[i])] \o JoinRows(Tail(roleSeq))

\* SELECT DISTINCT: the first occurrence of every row
RECURSIVE Distinct(_)
Distinct(rows) ==
    IF rows = <<>> THEN <<>>
    ELSE LET front == Distinct(SubSeq(rows, 1, Len(rows) - 1))
             last == rows[Len(rows)]
         IN IF last \in Range(front) THEN front ELSE Append(front, last)

\* A resolver that answers from the permissions read at the user's login
PermissionQueryCached(userId) ==
    LET mine == {i \in 1..Len(sessions) : sessions[i].userId = userId}
    IN IF mine # {} THEN sessions[CHOOSE i \in mine : TRUE].permissions
       ELSE IF Users[userId].present /\ Users[userId].IsActive
       THEN Distinct(JoinRows(Ascending(RolesOf(userId))))
       ELSE <<>>

\* The permission query of getAuthUser: ... WHERE u.UserID = @UserID AND u.IsActive = 1
PermissionQuery(userId) ==
    IF Users[userId].present /\ Users[userId].IsActive
    THEN Distinct(JoinRows(Ascending(RolesOf(userId))))
    ELSE <<>>

\* The permission query of login: no join with Users
LoginPermissionQuery(userId) == Distinct(JoinRows(Ascending(RolesOf(userId))))

\* The token of a request taken from the accessToken cookie first
ExtractTokenCookieFirst(request) ==
    LET h == request.authorization
        token == IF IsSome(h) /\ Val(h).scheme = "Bearer" THEN Val(h).credentials ELSE None
    IN IF IsSome(request.accessToken) THEN request.accessToken ELSE token

\* The token of a request: the Bearer credential, else the accessToken cookie
ExtractToken(request) ==
    LET h == request.authorization
        token == IF IsSome(h) /\ Val(h).scheme = "Bearer" THEN Val(h).credentials ELSE None
    IN IF IsSome(token) THEN token ELSE request.accessToken

\* getAuthUser: the payload with the permissions, or null
getAuthUser(request, fault) ==
    LET token == ExtractToken(request)
        payload == verifyToken(Val(token))
    IN IF ~IsSome(token) THEN None
       ELSE IF ~IsSome(payload) THEN None
       ELSE IF fault = "auth" THEN None
       ELSE Some([userId |-> Val(payload).userId, username |-> Val(payload).username,
                  permissions |-> PermissionQuery(Val(payload).userId)])

includes(permissions, permission) == permission \in Range(permissions)

Unauthorized == Json(401, FALSE, "Unauthorized")
Forbidden == Json(403, FALSE, "Forbidden: Insufficient permissions")

\* requirePermission without the permission comparison
requirePermissionNoCheck(request, permission, fault) ==
    LET user == getAuthUser(request, fault)
    IN IF ~IsSome(user) THEN [response |-> Some(Unauthorized), user |-> None]
       ELSE [response |-> None, user |-> user]

\* requirePermission: { response } or { user }
requirePermission(request, permission, fault) ==
    LET user == getAuthUser(request, fault)
    IN IF ~IsSome(user) THEN [response |-> Some(Unauthorized), user |-> None]
       ELSE IF ~includes(Val(user).permissions, permission)
            THEN [response |-> Some(Forbidden), user |-> None]
            ELSE [response |-> None, user |-> user]

-----------------------------------------------------------------------------
(* POST /auth/login *)

UserByUsername(username) ==
    {u \in UserIDs : Users[u].present /\ Users[u].Username = username}

InternalError == Json(500, FALSE, "Internal server error")

\* A RefreshTokens row that expires with the access token
RefreshTokenRowShortLived(userId, hex) ==
    [UserID |-> userId, Token |-> hex, ExpiresAt |-> now + JWT_EXPIRES_IN,
     RevokedAt |-> None]

\* The row login inserts: expiresAt = new Date(Date.now() + 7 days), RevokedAt
\* left to its default NULL
RefreshTokenRow(userId, hex) ==
    [UserID |-> userId, Token |-> hex, ExpiresAt |-> now + SEVEN_DAYS,
     RevokedAt |-> None]

\* What login does: the response and the tables, cookies and sessions after it
LoginResult(username, password, fault, hex) ==
    LET same == [resp |-> NoResp, data |-> None, audit |-> AuditLogs,
                 tokens |-> RefreshTokens, cookies |-> cookies, sessions |-> sessions]
        found == UserByUsername(username)
        userId == CHOOSE u \in found : TRUE
        user == Users[userId]
        tokenPayload == [userId |-> userId, username |-> user.Username]
        accessToken == generateAccessToken(tokenPayload)
        refreshToken == generateRefreshToken(tokenPayload)
        permissions == LoginPermissionQuery(userId)
    IN IF username = "" \/ password = ""
       THEN [same EXCEPT !.resp = Json(400, FALSE, "Username and password are required")]
       ELSE IF fault \in {"query", "auth"}
       THEN [same EXCEPT !.resp = InternalError]
       ELSE IF found = {}
       THEN [same EXCEPT !.resp = Json(401, FALSE, "Invalid credentials"),
                         !.audit = createAuditLog(AuthLog(None, None, "LOGIN_FAILED"), fault)]
       ELSE IF ~user.IsActive
       THEN [same EXCEPT !.resp = Json(401, FALSE, "Account is inactive"),
                         !.audit = createAuditLog(AuthLog(None, None, "LOGIN_FAILED"), fault)]
       ELSE IF ~verifyPassword(password, user.PasswordHash)
       THEN [same EXCEPT !.resp = Json(401, FALSE, "Invalid credentials"),
                         !.audit = createAuditLog(
                             AuthLog(Some(userId), Some(user.Username), "LOGIN_FAILED"), fault)]
       ELSE [resp |-> Json(200, TRUE, ""),
             data |-> Some([accessToken |-> accessToken, refreshToken |-> refreshToken,
                            permissions |-> permissions]),
             audit |-> createAuditLog(AuthLog(Some(userId), Some(user.Username), "LOGIN"), fault),
             tokens |-> Append(RefreshTokens, RefreshTokenRow(userId, hex)),
             cookies |-> setAuthCookies(accessToken, refreshToken),
             sessions |-> Append(sessions,
                                 [userId |-> userId, accessToken |-> accessToken,
                                  refreshToken |-> refreshToken, permissions |-> permissions,
                                  row |-> Len(RefreshTokens) + 1, loggedOut |-> FALSE])]

Login(username, password, fault, hex) ==
    /\ LET r == LoginResult(username, password, fault, hex)
       IN /\ Len(r.audit) <= MaxAuditRows
          /\ Len(r.sessions) <= MaxSessions
          /\ resp' = [status |-> r.resp.status, success |-> r.resp.success,
                      error |-> r.resp.error, data |-> r.data]
          /\ AuditLogs' = r.audit
          /\ RefreshTokens' = r.tokens
          /\ cookies' = r.cookies
          /\ sessions' = r.sessions
    /\ req' = [op |-> "login", username |-> username, password |-> password,
               fault |-> fault, tokens |-> RefreshTokens,
               audits |-> Len(AuditLogs), at |-> now]
    /\ UNCHANGED <<clientVars, handling, replacing, now, ticks, dbVars, entVars>>

-----------------------------------------------------------------------------
(* POST /auth/logout *)

\* UPDATE RefreshTokens SET RevokedAt = GETDATE() WHERE Token = @Token
RevokeWhereToken(token) ==
    [i \in 1..Len(RefreshTokens) |->
        IF RefreshTokens[i].Token = token
        THEN [RefreshTokens[i] EXCEPT !.RevokedAt = Some(now)]
        ELSE RefreshTokens[i]]

LogoutResult(request, fault) ==
    LET user == getAuthUser(request, fault)
        refreshToken == request.refreshToken
    IN IF IsSome(refreshToken) /\ fault = "query"
       THEN [resp |-> InternalError, audit |-> AuditLogs, tokens |-> RefreshTokens,
             cookies |-> cookies]
       ELSE [resp |-> [status |-> 200, success |-> TRUE, error |-> ""],
             audit |-> IF IsSome(user)
                       THEN createAuditLog(
                                AuthLog(Some(Val(user).userId), Some(Val(user).username), "LOGOUT"),
                                fault)
                       ELSE AuditLogs,
             tokens |-> IF IsSome(refreshToken)
                        THEN RevokeWhereToken(Val(refreshToken))
                        ELSE RefreshTokens,
             cookies |-> clearAuthCookies]

\* The sessions a successful logout with this refresh cookie has ended
MarkLoggedOut(refreshToken) ==
    [i \in 1..Len(sessions) |->
        IF IsSome(refreshToken) /\ sessions[i].refreshToken = Val(refreshToken)
        THEN [sessions[i] EXCEPT !.loggedOut = TRUE]
        ELSE sessions[i]]

Logout(request, fault) ==
    /\ LET r == LogoutResult(request, fault)
       IN /\ Len(r.audit) <= MaxAuditRows
          /\ resp' = r.resp
          /\ AuditLogs' = r.audit
          /\ RefreshTokens' = r.tokens
          /\ cookies' = r.cookies
          /\ sessions' = IF r.resp.success
                         THEN MarkLoggedOut(request.refreshToken)
                         ELSE sessions
    /\ req' = [op |-> "logout", request |-> request]
    /\ UNCHANGED <<clientVars, handling, replacing, now, ticks, dbVars, entVars>>

-----------------------------------------------------------------------------
(* POST /auth/refresh *)

RefreshResult(request, fault) ==
    LET refreshToken == request.refreshToken
        payload == verifyToken(Val(refreshToken))
        userId == Val(payload).userId
        user == Users[userId]
        tokenPayload == [userId |-> userId, username |-> user.Username]
        fail(r) == [resp |-> r, cookies |-> cookies, data |-> None]
    IN IF ~IsSome(refreshToken) THEN fail(Json(401, FALSE, "Refresh token not found"))
       ELSE IF ~IsSome(payload) THEN fail(Json(401, FALSE, "Invalid refresh token"))
       ELSE IF fault \in {"query", "auth"} THEN fail(InternalError)
       ELSE IF ~user.present \/ ~user.IsActive
            THEN fail(Json(401, FALSE, "User not found or inactive"))
       ELSE [resp |-> Json(200, TRUE, ""),
             cookies |-> setAuthCookies(generateAccessToken(tokenPayload),
                                        generateRefreshToken(tokenPayload)),
             data |-> Some([accessToken |-> generateAccessToken(tokenPayload),
                            refreshToken |-> generateRefreshToken(tokenPayload)])]

Refresh(request, fault) ==
    /\ LET r == RefreshResult(request, fault)
       IN /\ resp' = [status |-> r.resp.status, success |-> r.resp.success,
                      error |-> r.resp.error, data |-> r.data]
          /\ cookies' = r.cookies
    /\ req' = [op |-> "refresh", request |-> request]
    /\ UNCHANGED <<clientVars, handling, replacing, now, ticks, dbVars, entVars, RefreshTokens, AuditLogs, sessions>>

-----------------------------------------------------------------------------
(* The clock *)

Tick(d) ==
    /\ ticks < MaxTicks
    /\ now' = now + d
    /\ ticks' = ticks + 1
    /\ req' = NoReq
    /\ resp' = NoResp
    /\ UNCHANGED <<clientVars, handling, replacing, dbVars, entVars, authVars, AuditLogs>>

-----------------------------------------------------------------------------
(* The session handlers *)

NextAuth ==
    \/ \E username \in Usernames \cup {""}, password \in Passwords,
          fault \in {"none", "query", "audit"} :
            Login(username, password, fault, generateRandomToken(Len(RefreshTokens) + 1))
    \/ \E request \in Requests, fault \in {"none", "auth", "query", "audit"} :
            Logout(request, fault)
    \/ \E request \in Requests, fault \in {"none", "query"} : Refresh(request, fault)
    \/ \E d \in {JWT_EXPIRES_IN, REFRESH_TOKEN_EXPIRES_IN} : Tick(d)

SpecAuth == Init /\ [][NextAuth]_vars

-----------------------------------------------------------------------------
(* The gate applied to a request: requirePermission(request, permission) *)

RequirePermission(request, permission, fault) ==
    /\ LET gate == requirePermission(request, permission, fault)
       IN resp' = IF IsSome(gate.response)
                  THEN [status |-> Val(gate.response).status, success |-> FALSE,
                        error |-> Val(gate.response).error, user |-> None]
                  ELSE [status |-> 200, success |-> TRUE, error |-> "", user |-> gate.user]
    /\ req' = [op |-> "requirePermission", request |-> request,
               permission |-> permission, fault |-> fault]
    /\ UNCHANGED <<clientVars, handling, replacing, now, ticks, dbVars, entVars, authVars, AuditLogs>>

-----------------------------------------------------------------------------
(* GET /users and GET /audit-logs *)

GetUsersResult(request, fault) ==
    LET gate == requirePermission(request, USERS_READ, fault)
    IN IF IsSome(gate.response) THEN Val(gate.response)
       ELSE IF fault = "query" THEN Json(500, FALSE, "Failed to fetch users")
       ELSE Json(200, TRUE, "")

GetUsers(request, fault) ==
    /\ resp' = GetUsersResult(request, fault)
    /\ req' = [op |-> "GET /users", request |-> request, fault |-> fault]
    /\ UNCHANGED <<clientVars, handling, replacing, now, ticks, dbVars, entVars, authVars, AuditLogs>>

\* p.startsWith(prefix + '.') on a dotted name held as its segments
startsWith(name, prefix) ==
    Len(prefix) < Len(name) /\ SubSeq(name, 1, Len(prefix)) = prefix

\* GET /audit-logs with the admin shortcut widened to every permission name
AuditLogsAllowedAnyPrefix(permissions) ==
    \/ includes(permissions, AUDIT_READ)
    \/ \E i \in 1..Len(permissions) : Len(permissions[i]) > 1

\* hasPermission || isAdmin of GET /audit-logs
AuditLogsAllowed(permissions) ==
    \/ includes(permissions, AUDIT_READ)
    \/ \E i \in 1..Len(permissions) :
          startsWith(permissions[i], <<"users">>) \/ startsWith(permissions[i], <<"roles">>)

GetAuditLogsResult(request, fault) ==
    LET user == getAuthUser(request, fault)
    IN IF ~IsSome(user) THEN Unauthorized
       ELSE IF ~AuditLogsAllowed(Val(user).permissions) THEN Forbidden
       ELSE IF fault = "query" THEN Json(500, FALSE, "Failed to fetch audit logs")
       ELSE Json(200, TRUE, "")

GetAuditLogs(request, fault) ==
    /\ resp' = GetAuditLogsResult(request, fault)
    /\ req' = [op |-> "GET /audit-logs", request |-> request, fault |-> fault]
    /\ UNCHANGED <<clientVars, handling, replacing, now, ticks, dbVars, entVars, authVars, AuditLogs>>

-----------------------------------------------------------------------------
(* PUT /roles/:id and DELETE /roles/:id *)

truthy(x) == IsSome(x) /\ Val(x) # ""

RoleRow(id) ==
    (<<"RoleID">> :> Some(id)) @@ (<<"RoleName">> :> Some(Roles[id].RoleName))
      @@ (<<"IsSystem">> :> Some(Roles[id].IsSystem))

RoleBody(body) ==
    (<<"RoleName">> :> body.RoleName) @@ (<<"Description">> :> None)
      @@ (<<"PermissionIds">> :> body.PermissionIds)

AdminLog(user, action, module, id, old, new) ==
    [UserID |-> Some(Val(user).userId), Username |-> Some(Val(user).username),
     Action |-> action, Module |-> module, RecordID |-> Some(id),
     OldValue |-> old, NewValue |-> new]

\* RoleName is unique: the UPDATE fails when another role has the name
RoleNameTaken(id, name) ==
    \E r \in RoleIDs : r # id /\ Roles[r].present /\ Roles[r].RoleName = name

PutRoleResult(request, id, body, fault) ==
    LET gate == requirePermission(request, ROLES_UPDATE, fault)
        same == [resp |-> NoResp, roles |-> Roles, perms |-> RolePermissions,
                 audit |-> AuditLogs]
        oldRole == Roles[id]
        roles2 == IF IsSome(body.RoleName)
                  THEN [Roles EXCEPT ![id].RoleName = Val(body.RoleName)]
                  ELSE Roles
        perms2 == IF IsSome(body.PermissionIds)
                  THEN {rp \in RolePermissions : rp[1] # id}
                         \cup {<<id, pid>> : pid \in Val(body.PermissionIds)}
                  ELSE RolePermissions
    IN IF IsSome(gate.response) THEN [same EXCEPT !.resp = Val(gate.response)]
       ELSE IF fault = "query"
       THEN [same EXCEPT !.resp = Json(500, FALSE, "Failed to update role")]
       ELSE IF ~oldRole.present
       THEN [same EXCEPT !.resp = Json(404, FALSE, "Role not found")]
       ELSE IF oldRole.IsSystem /\ truthy(body.RoleName)
               /\ Val(body.RoleName) # oldRole.RoleName
       THEN [same EXCEPT !.resp = Json(400, FALSE, "Cannot rename system roles")]
       ELSE IF IsSome(body.RoleName) /\ RoleNameTaken(id, Val(body.RoleName))
       THEN [same EXCEPT !.resp = Json(500, FALSE, "Failed to update role")]
       ELSE [resp |-> Json(200, TRUE, ""),
             roles |-> roles2, perms |-> perms2,
             audit |-> createAuditLog(
                 AdminLog(gate.user, "UPDATE", "Roles", id,
                          Some(sanitizeForAudit(RoleRow(id))),
                          Some(sanitizeForAudit(RoleBody(body)))), fault)]

PutRole(request, id, body, fault) ==
    /\ LET r == PutRoleResult(request, id, body, fault)
       IN /\ resp' = r.resp
          /\ Roles' = r.roles
          /\ RolePermissions' = r.perms
          /\ AuditLogs' = r.audit
          /\ Len(r.audit) <= MaxAuditRows
    /\ req' = [op |-> "PUT /roles/:id", id |-> id, body |-> body, fault |-> fault,
               before |-> Roles]
    /\ UNCHANGED <<clientVars, handling, replacing, now, ticks, Users, UserRoles, entVars, authVars>>

DeleteRoleResult(request, id, fault) ==
    LET gate == requirePermission(request, ROLES_DELETE, fault)
        same == [resp |-> NoResp, roles |-> Roles, perms |-> RolePermissions,
                 userRoles |-> UserRoles, audit |-> AuditLogs]
        oldRole == Roles[id]
        deleted == [roles |-> [Roles EXCEPT ![id] = NoRole],
                    perms |-> {rp \in RolePermissions : rp[1] # id},
                    userRoles |-> {ur \in UserRoles : ur[2] # id}]
    IN IF IsSome(gate.response) THEN [same EXCEPT !.resp = Val(gate.response)]
       ELSE IF fault = "query"
       THEN [same EXCEPT !.resp = Json(500, FALSE, "Failed to delete role")]
       ELSE IF ~oldRole.present
       THEN [same EXCEPT !.resp = Json(404, FALSE, "Role not found")]
       ELSE IF oldRole.IsSystem
       THEN [same EXCEPT !.resp = Json(400, FALSE, "Cannot delete system roles")]
       ELSE [resp |-> Json(200, TRUE, ""),
             roles |-> deleted.roles, perms |-> deleted.perms,
             userRoles |-> deleted.userRoles,
             audit |-> createAuditLog(
                 AdminLog(gate.user, "DELETE", "Roles", id,
                          Some(sanitizeForAudit(RoleRow(id))), None), fault)]

DeleteRole(request, id, fault) ==
    /\ LET r == DeleteRoleResult(request, id, fault)
       IN /\ resp' = r.resp
          /\ Roles' = r.roles
          /\ RolePermissions' = r.perms
          /\ UserRoles' = r.userRoles
          /\ AuditLogs' = r.audit
          /\ Len(r.audit) <= MaxAuditRows
    /\ req' = [op |-> "DELETE /roles/:id", id |-> id]
    /\ UNCHANGED <<clientVars, handling, replacing, now, ticks, Users, entVars, authVars>>

-----------------------------------------------------------------------------
(* PUT /users/:id *)

UserRow(id) ==
    (<<"UserID">> :> Some(id)) @@ (<<"Username">> :> Some(Users[id].Username))
      @@ (<<"PasswordHash">> :> Some(Users[id].PasswordHash))
      @@ (<<"IsActive">> :> Some(Users[id].IsActive))

UserBody(body) ==
    (<<"Email">> :> None) @@ (<<"FirstName">> :> None) @@ (<<"LastName">> :> None)
      @@ (<<"IsActive">> :> body.IsActive) @@ (<<"RoleIds">> :> body.RoleIds)

\* INSERT INTO UserRoles for each id in turn; the insert of a role that does not
\* exist violates the foreign key and ends the loop
RECURSIVE InsertUserRoles(_, _, _)
InsertUserRoles(table, id, roleIds) ==
    IF roleIds = <<>> THEN [table |-> table, threw |-> FALSE]
    ELSE IF Head(roleIds) \notin RoleIDs \/ ~Roles[Head(roleIds)].present
    THEN [table |-> table, threw |-> TRUE]
    ELSE InsertUserRoles(table \cup {<<id, Head(roleIds)>>}, id, Tail(roleIds))

PutUserResult(request, id, body, fault) ==
    LET gate == requirePermission(request, USERS_UPDATE, fault)
        same == [resp |-> NoResp, users |-> Users, userRoles |-> UserRoles,
                 audit |-> AuditLogs]
        oldUser == Users[id]
        users1 == IF IsSome(body.IsActive)
                  THEN [Users EXCEPT ![id].IsActive = Val(body.IsActive)]
                  ELSE Users
        users2 == IF truthy(body.Password)
                  THEN [users1 EXCEPT ![id].PasswordHash = hashPassword(Val(body.Password))]
                  ELSE users1
        inserted == IF IsSome(body.RoleIds)
                    THEN InsertUserRoles({ur \in UserRoles : ur[1] # id}, id,
                                         Val(body.RoleIds))
                    ELSE [table |-> UserRoles, threw |-> FALSE]
    IN IF IsSome(gate.response) THEN [same EXCEPT !.resp = Val(gate.response)]
       ELSE IF fault = "query"
       THEN [same EXCEPT !.resp = Json(500, FALSE, "Failed to update user")]
       ELSE IF ~oldUser.present
       THEN [same EXCEPT !.resp = Json(404, FALSE, "User not found")]
       ELSE IF inserted.threw
       THEN [resp |-> Json(500, FALSE, "Failed to update user"),
             users |-> users2, userRoles |-> inserted.table, audit |-> AuditLogs]
       ELSE [resp |-> Json(200, TRUE, ""),
             users |-> users2, userRoles |-> inserted.table,
             audit |-> createAuditLog(
                 AdminLog(gate.user, "UPDATE", "Users", id,
                          Some(sanitizeForAudit(UserRow(id))),
                          Some(sanitizeForAudit(UserBody(body)))), fault)]

PutUser(request, id, body, fault) ==
    /\ LET r == PutUserResult(request, id, body, fault)
       IN /\ resp' = r.resp
          /\ Users' = r.users
          /\ UserRoles' = r.userRoles
          /\ AuditLogs' = r.audit
          /\ Len(r.audit) <= MaxAuditRows
    /\ req' = [op |-> "PUT /users/:id", id |-> id]
    /\ UNCHANGED <<clientVars, handling, replacing, now, ticks, Roles, RolePermissions, entVars, authVars>>

-----------------------------------------------------------------------------
(* The gate and the permission-gated reads over seeded stores *)

\* The permission sets the Auditor role is seeded with: nothing, audit_logs.read,
\* users.update, roles.update, vendors.read, audit_logs.read with vendors.read
GateSeeds == {{}, {1}, {3}, {4}, {6}, {1, 6}}

InitGate == \E auditorPermissions \in GateSeeds : Seeded(PermissionIDs, auditorPermissions)

\* The requests sent to the gate: anonymous, the browser's jar, a forged token
\* and the known access tokens as Bearer header
GateRequests ==
    {Request(NoHeader, None, None),
     Request(NoHeader, cookies.accessToken, cookies.refreshToken),
     Request(Bearer(ForgedToken), None, None)}
      \cup {Request(Bearer(t), None, None) : t \in KnownAccessTokens}

Credentials == {<<"admin", "admin123">>, <<"bob", "bobpw">>}

NextGate ==
    \/ \E c \in Credentials :
          Login(c[1], c[2], "none", generateRandomToken(Len(RefreshTokens) + 1))
    \/ \E request \in GateRequests, permission \in PermissionNames,
          fault \in {"none", "auth"} : RequirePermission(request, permission, fault)
    \/ \E request \in GateRequests, fault \in {"none", "auth", "query"} :
          GetUsers(request, fault)
    \/ \E request \in GateRequests, fault \in {"none", "auth", "query"} :
          GetAuditLogs(request, fault)
    \/ Tick(JWT_EXPIRES_IN)

SpecGate == InitGate /\ [][NextGate]_vars

-----------------------------------------------------------------------------
(* The gate applied to requests that carry a header and a cookie *)

\* 'Bearer ' with nothing behind it: slice(7) is the empty string
EmptyBearer == Some([scheme |-> "Bearer", credentials |-> None])

\* A header of another scheme: startsWith('Bearer ') is false
Basic(token) == Some([scheme |-> "Basic", credentials |-> Some(token)])

\* The Authorization headers sent: none, 'Bearer ', a forged token, the known
\* access tokens as Bearer and as Basic credential
AuthorizationHeaders ==
    {NoHeader, EmptyBearer, Bearer(ForgedToken)}
      \cup {Bearer(t) : t \in KnownAccessTokens}
      \cup {Basic(t) : t \in KnownAccessTokens}

\* The accessToken cookies sent: none, a forged token, the known access tokens
AccessTokenCookies ==
    {None, Some(ForgedToken)} \cup {Some(t) : t \in KnownAccessTokens}

HeaderAndCookieRequests ==
    {Request(h, c, None) : h \in AuthorizationHeaders, c \in AccessTokenCookies}

NextBearer ==
    \/ \E c \in Credentials :
          Login(c[1], c[2], "none", generateRandomToken(Len(RefreshTokens) + 1))
    \/ \E request \in HeaderAndCookieRequests, permission \in {USERS_READ, AUDIT_READ},
          fault \in {"none", "auth"} : RequirePermission(request, permission, fault)
    \/ Tick(JWT_EXPIRES_IN)

SpecBearer == Init /\ [][NextBearer]_vars

-----------------------------------------------------------------------------
(* The gate and POST /auth/refresh given a token of the other kind *)

\* A known refresh token sent as Bearer token or as accessToken cookie, a known
\* access token sent as refreshToken cookie, and each token in its own place
SwappedRequests ==
    {Request(Bearer(t), None, None) : t \in KnownRefreshTokens \cup KnownAccessTokens}
      \cup {Request(NoHeader, Some(t), None) : t \in KnownRefreshTokens}
      \cup {Request(NoHeader, None, Some(t)) : t \in KnownAccessTokens \cup KnownRefreshTokens}

NextTokens ==
    \/ \E c \in Credentials :
          Login(c[1], c[2], "none", generateRandomToken(Len(RefreshTokens) + 1))
    \/ \E request \in SwappedRequests, permission \in {USERS_READ, AUDIT_READ} :
          RequirePermission(request, permission, "none")
    \/ \E request \in SwappedRequests : Refresh(request, "none")
    \/ Tick(JWT_EXPIRES_IN)

SpecTokens == Init /\ [][NextTokens]_vars

-----------------------------------------------------------------------------
(* Role and user administration, with the gate applied to later requests *)

\* PUT /roles/:id bodies: a permission replacement, the empty name, a new name,
\* the name of the seeded system role
RoleBodies ==
    {[RoleName |-> None, PermissionIds |-> Some({1})],
     [RoleName |-> Some(""), PermissionIds |-> None],
     [RoleName |-> Some("Ops"), PermissionIds |-> None],
     [RoleName |-> Some("Administrator"), PermissionIds |-> None]}

\* PUT /users/:id bodies: a deactivation, both roles, no role
UserBodies ==
    {[IsActive |-> Some(FALSE), Password |-> None, RoleIds |-> None],
     [IsActive |-> None, Password |-> None, RoleIds |-> Some(<<1, 2>>)],
     [IsActive |-> None, Password |-> None, RoleIds |-> Some(<<>>)]}

\* The requests of a logged-in client: the browser's jar, a known access token
\* as Bearer header
ClientRequests ==
    {Request(NoHeader, cookies.accessToken, cookies.refreshToken)}
      \cup {Request(Bearer(t), None, None) : t \in KnownAccessTokens}

NextAdmin ==
    \/ \E c \in Credentials :
          Login(c[1], c[2], "none", generateRandomToken(Len(RefreshTokens) + 1))
    \/ \E request \in ClientRequests, id \in RoleIDs, fault \in {"none", "audit"} :
          PutRole(request, id, [RoleName |-> None, PermissionIds |-> Some({1})], fault)
    \/ \E request \in ClientRequests, id \in UserIDs, body \in UserBodies :
          PutUser(request, id, body, "none")
    \/ \E request \in ClientRequests, permission \in PermissionNames :
          RequirePermission(request, permission, "none")

SpecAdmin == Init /\ [][NextAdmin]_vars

\* The role API alone
NextRoles ==
    \/ Login("admin", "admin123", "none", generateRandomToken(Len(RefreshTokens) + 1))
    \/ \E request \in ClientRequests, id \in RoleIDs, body \in RoleBodies,
          fault \in {"none", "audit", "query"} : PutRole(request, id, body, fault)
    \/ \E request \in ClientRequests, id \in RoleIDs,
          fault \in {"none", "audit", "query"} : DeleteRole(request, id, fault)

SpecRoles == Init /\ [][NextRoles]_vars

-----------------------------------------------------------------------------
(* PUT /roles/:id and PUT /users/:id query by query: each await of the handler
   is a step, and other requests are handled between the steps *)

\* PUT /roles/:id with PermissionIds from its gate to DELETE FROM RolePermissions
PutRoleDelete(request, id, permissionIds) ==
    LET gate == requirePermission(request, ROLES_UPDATE, "none")
        body == [RoleName |-> None, PermissionIds |-> Some(permissionIds)]
    IN /\ replacing.pc = "idle"
       /\ ~IsSome(gate.response)
       /\ Roles[id].present
       /\ RolePermissions' = {rp \in RolePermissions : rp[1] # id}
       /\ replacing' = [pc |-> "insert", table |-> "RolePermissions", id |-> id,
                        ids |-> permissionIds, rest |-> permissionIds,
                        log |-> AdminLog(gate.user, "UPDATE", "Roles", id,
                                         Some(sanitizeForAudit(RoleRow(id))),
                                         Some(sanitizeForAudit(RoleBody(body)))),
                        before |-> [UserRoles |-> UserRoles,
                                    RolePermissions |-> RolePermissions]]
       /\ UNCHANGED <<clientVars, handling, now, ticks, Users, Roles, UserRoles, entVars, authVars,
                      AuditLogs, req, resp>>

\* The next INSERT INTO RolePermissions of the loop; a failure of the store, an
\* id that is no permission or one that is in the table already makes the INSERT
\* throw, and the catch answers 500
PutRoleInsert(fault) ==
    LET id == replacing.id
        permId == Head(replacing.rest)
    IN /\ replacing.pc = "insert"
       /\ replacing.table = "RolePermissions"
       /\ replacing.rest # <<>>
       /\ IF /\ fault = "none"
             /\ permId \in PermissionIDs
             /\ <<id, permId>> \notin RolePermissions
          THEN /\ RolePermissions' = RolePermissions \cup {<<id, permId>>}
               /\ replacing' = [replacing EXCEPT !.rest = Tail(replacing.rest)]
               /\ UNCHANGED <<req, resp>>
          ELSE /\ resp' = Json(500, FALSE, "Failed to update role")
               /\ req' = [op |-> "PUT /roles/:id", id |-> id, threw |-> TRUE,
                          before |-> replacing.before]
               /\ replacing' = NotReplacing
               /\ UNCHANGED RolePermissions
       /\ UNCHANGED <<clientVars, handling, now, ticks, Users, Roles, UserRoles, entVars, authVars,
                      AuditLogs>>

\* After the loop: createAuditLog and the response
PutRoleRespond ==
    /\ replacing.pc = "insert"
    /\ replacing.table = "RolePermissions"
    /\ replacing.rest = <<>>
    /\ AuditLogs' = createAuditLog(replacing.log, "none")
    /\ Len(AuditLogs') <= MaxAuditRows
    /\ resp' = Json(200, TRUE, "")
    /\ req' = [op |-> "PUT /roles/:id", id |-> replacing.id, threw |-> FALSE,
               before |-> replacing.before]
    /\ replacing' = NotReplacing
    /\ UNCHANGED <<clientVars, handling, now, ticks, dbVars, entVars, authVars>>

\* PUT /users/:id with RoleIds from its gate to DELETE FROM UserRoles
PutUserDelete(request, id, roleIds) ==
    LET gate == requirePermission(request, USERS_UPDATE, "none")
        body == [IsActive |-> None, Password |-> None, RoleIds |-> Some(roleIds)]
    IN /\ replacing.pc = "idle"
       /\ ~IsSome(gate.response)
       /\ Users[id].present
       /\ UserRoles' = {ur \in UserRoles : ur[1] # id}
       /\ replacing' = [pc |-> "insert", table |-> "UserRoles", id |-> id,
                        ids |-> roleIds, rest |-> roleIds,
                        log |-> AdminLog(gate.user, "UPDATE", "Users", id,
                                         Some(sanitizeForAudit(UserRow(id))),
                                         Some(sanitizeForAudit(UserBody(body)))),
                        before |-> [UserRoles |-> UserRoles,
                                    RolePermissions |-> RolePermissions]]
       /\ UNCHANGED <<clientVars, handling, now, ticks, Users, Roles, RolePermissions, entVars,
                      authVars, AuditLogs, req, resp>>

\* The next INSERT INTO UserRoles of the loop
PutUserInsert(fault) ==
    LET id == replacing.id
        roleId == Head(replacing.rest)
    IN /\ replacing.pc = "insert"
       /\ replacing.table = "UserRoles"
       /\ replacing.rest # <<>>
       /\ IF /\ fault = "none"
             /\ roleId \in RoleIDs
             /\ Roles[roleId].present
             /\ <<id, roleId>> \notin UserRoles
          THEN /\ UserRoles' = UserRoles \cup {<<id, roleId>>}
               /\ replacing' = [replacing EXCEPT !.rest = Tail(replacing.rest)]
               /\ UNCHANGED <<req, resp>>
          ELSE /\ resp' = Json(500, FALSE, "Failed to update user")
               /\ req' = [op |-> "PUT /users/:id", id |-> id, threw |-> TRUE,
                          before |-> replacing.before]
               /\ replacing' = NotReplacing
               /\ UNCHANGED UserRoles
       /\ UNCHANGED <<clientVars, handling, now, ticks, Users, Roles, RolePermissions, entVars,
                      authVars, AuditLogs>>

PutUserRespond ==
    /\ replacing.pc = "insert"
    /\ replacing.table = "UserRoles"
    /\ replacing.rest = <<>>
    /\ AuditLogs' = createAuditLog(replacing.log, "none")
    /\ Len(AuditLogs') <= MaxAuditRows
    /\ resp' = Json(200, TRUE, "")
    /\ req' = [op |-> "PUT /users/:id", id |-> replacing.id, threw |-> FALSE,
               before |-> replacing.before]
    /\ replacing' = NotReplacing
    /\ UNCHANGED <<clientVars, handling, now, ticks, dbVars, entVars, authVars>>

\* PermissionIds sent: three permissions, a list whose second id is no permission
PermissionIdLists == {<<3, 4, 1>>, <<4, 9>>}

\* RoleIds sent: both roles, a list whose second id is no role
RoleIdLists == {<<1, 2>>, <<1, 3>>}

NextReplace ==
    \/ \E c \in Credentials :
          Login(c[1], c[2], "none", generateRandomToken(Len(RefreshTokens) + 1))
    \/ \E request \in ClientRequests, id \in RoleIDs, permissionIds \in PermissionIdLists :
          PutRoleDelete(request, id, permissionIds)
    \/ \E fault \in {"none", "query"} : PutRoleInsert(fault)
    \/ PutRoleRespond
    \/ \E request \in ClientRequests, id \in UserIDs, roleIds \in RoleIdLists :
          PutUserDelete(request, id, roleIds)
    \/ \E fault \in {"none", "query"} : PutUserInsert(fault)
    \/ PutUserRespond
    \/ \E request \in ClientRequests, permission \in {AUDIT_READ, USERS_UPDATE} :
          RequirePermission(request, permission, "none")

SpecReplace == Init /\ [][NextReplace]_vars

-----------------------------------------------------------------------------
(* The catalog handlers: vendors, products, io-universal, io-mappings *)

Found(table, id) == id \in DOMAIN table /\ table[id].present
Stored(name) == [present |-> TRUE, Name |-> name]

\* SELECT * FROM <table> WHERE <idKey> = @id, as the object the driver returns
Snapshot(idKey, nameKey, id, row) ==
    (<<idKey>> :> Some(id)) @@ (<<nameKey>> :> Some(row.Name))

\* The audit entry of a catalog handler: UserID: user?.userId, Username: user?.username
EntityLog(user, action, module, id, old, new) ==
    [UserID |-> IF IsSome(user) THEN Some(Val(user).userId) ELSE None,
     Username |-> IF IsSome(user) THEN Some(Val(user).username) ELSE None,
     Action |-> action, Module |-> module, RecordID |-> Some(id),
     OldValue |-> old, NewValue |-> new]

\* body.key, undefined when the body has no such property
Prop(body, key) == IF <<key>> \in DOMAIN body THEN body[<<key>>] ELSE None

\* What a handler leaves behind: the response, its table and the audit table
Outcome(response, table, audit) == [resp |-> response, table |-> table, audit |-> audit]

\* POST /vendors
VendorsPOSTResult(body, fault) ==
    IF ~truthy(Prop(body, "VendorName"))
    THEN Outcome(Json(400, FALSE, "VendorName is required"), Vendor, AuditLogs)
    ELSE IF fault = "query"
    THEN Outcome(Json(500, FALSE, "Failed to create vendor"), Vendor, AuditLogs)
    ELSE Outcome(Json(200, TRUE, ""),
                 [Vendor EXCEPT ![1] = Stored(Val(Prop(body, "VendorName")))], AuditLogs)

\* POST /products
ProductsPOSTResult(request, body, fault) ==
    LET user == getAuthUser(request, fault)
        inserted == [Product EXCEPT ![1] = Stored(Val(Prop(body, "ProductName")))]
    IN IF ~truthy(Prop(body, "ProductName")) \/ ~IsSome(Prop(body, "VendorID"))
       THEN Outcome(Json(400, FALSE, "ProductName and VendorID are required"),
                    Product, AuditLogs)
       ELSE IF fault = "query"
       THEN Outcome(Json(500, FALSE, "Failed to create product"), Product, AuditLogs)
       ELSE IF fault = "serialize"
       THEN Outcome(Json(500, FALSE, "Failed to create product"), inserted, AuditLogs)
       ELSE Outcome(Json(200, TRUE, ""), inserted,
                    createAuditLog(EntityLog(user, "CREATE", "Products", 1, None,
                                             Some(sanitizeForAudit(body))), fault))

\* POST /io-universal
IOUniversalPOSTResult(request, body, fault) ==
    LET user == getAuthUser(request, fault)
        IOID == Val(Prop(body, "IOID"))
        inserted == [IOUniversal EXCEPT ![IOID] = Stored("io")]
    IN IF ~IsSome(Prop(body, "IOID"))
       THEN Outcome(Json(400, FALSE, "IOID is required"), IOUniversal, AuditLogs)
       ELSE IF fault = "query"
       THEN Outcome(Json(500, FALSE, "Failed to create IO Universal entry"),
                    IOUniversal, AuditLogs)
       ELSE IF Found(IOUniversal, IOID)
       THEN Outcome(Json(400, FALSE, "IOID already exists"), IOUniversal, AuditLogs)
       ELSE IF fault = "serialize"
       THEN Outcome(Json(500, FALSE, "Failed to create IO Universal entry"),
                    inserted, AuditLogs)
       ELSE Outcome(Json(200, TRUE, ""), inserted,
                    createAuditLog(EntityLog(user, "CREATE", "IOUniversal", IOID, None,
                                             Some(sanitizeForAudit(body))), fault))

\* POST /io-mappings
IOMappingsPOSTResult(body, fault) ==
    IF ~IsSome(Prop(body, "IOID"))
    THEN Outcome(Json(400, FALSE, "IOID is required"), IOMapping, AuditLogs)
    ELSE IF fault = "query"
    THEN Outcome(Json(500, FALSE, "Failed to create IO mapping"), IOMapping, AuditLogs)
    ELSE Outcome(Json(200, TRUE, ""), [IOMapping EXCEPT ![1] = Stored("mapping")], AuditLogs)

\* PUT /vendors/:id, /products/:id, /io-universal/:id: read the old row, update,
\* 404 when no row was updated, write the audit entry
AuditedPUTResult(request, table, e, id, body, fault) ==
    LET user == getAuthUser(request, fault)
        failed == Json(500, FALSE, e.failedUpdate)
        updated == [table EXCEPT ![id] = Stored(Val(Prop(body, e.nameKey)))]
    IN IF fault = "query" THEN Outcome(failed, table, AuditLogs)
       ELSE IF ~Found(table, id) THEN Outcome(Json(404, FALSE, e.notFound), table, AuditLogs)
       ELSE IF fault = "serialize" THEN Outcome(failed, updated, AuditLogs)
       ELSE Outcome(Json(200, TRUE, ""), updated,
                    createAuditLog(
                        EntityLog(user, "UPDATE", e.module, id,
                                  Some(sanitizeForAudit(Snapshot(e.idKey, e.nameKey, id, table[id]))),
                                  Some(sanitizeForAudit(body))), fault))

\* DELETE /vendors/:id, /products/:id, /io-universal/:id
AuditedDELETEResult(request, table, e, id, fault) ==
    LET user == getAuthUser(request, fault)
    IN IF fault = "query" THEN Outcome(Json(500, FALSE, e.failedDelete), table, AuditLogs)
       ELSE IF ~Found(table, id) THEN Outcome(Json(404, FALSE, e.notFound), table, AuditLogs)
       ELSE Outcome(Json(200, TRUE, ""), [table EXCEPT ![id] = NoRow],
                    createAuditLog(
                        EntityLog(user, "DELETE", e.module, id,
                                  Some(sanitizeForAudit(Snapshot(e.idKey, e.nameKey, id, table[id]))),
                                  None), fault))

VendorEntity ==
    [module |-> "Vendors", idKey |-> "VendorID", nameKey |-> "VendorName",
     notFound |-> "Vendor not found", failedUpdate |-> "Failed to update vendor",
     failedDelete |-> "Failed to delete vendor"]
ProductEntity ==
    [module |-> "Products", idKey |-> "ProductID", nameKey |-> "ProductName",
     notFound |-> "Product not found", failedUpdate |-> "Failed to update product",
     failedDelete |-> "Failed to delete product"]
IOUniversalEntity ==
    [module |-> "IOUniversal", idKey |-> "IOID", nameKey |-> "IOName",
     notFound |-> "IO Universal entry not found",
     failedUpdate |-> "Failed to update IO Universal entry",
     failedDelete |-> "Failed to delete IO Universal entry"]

\* PUT /io-mappings/:id
IOMappingsPUTResult(id, body, fault) ==
    IF fault = "query"
    THEN Outcome(Json(500, FALSE, "Failed to update IO mapping"), IOMapping, AuditLogs)
    ELSE IF ~Found(IOMapping, id)
    THEN Outcome(Json(404, FALSE, "IO Mapping not found"), IOMapping, AuditLogs)
    ELSE Outcome(Json(200, TRUE, ""), [IOMapping EXCEPT ![id] = Stored("mapping")], AuditLogs)

\* DELETE /io-mappings/:id
IOMappingsDELETEResult(id, fault) ==
    IF fault = "query"
    THEN Outcome(Json(500, FALSE, "Failed to delete IO mapping"), IOMapping, AuditLogs)
    ELSE IF ~Found(IOMapping, id)
    THEN Outcome(Json(404, FALSE, "IO Mapping not found"), IOMapping, AuditLogs)
    ELSE Outcome(Json(200, TRUE, ""), [IOMapping EXCEPT ![id] = NoRow], AuditLogs)

\* The part every catalog action shares: the response, the audit table, and the
\* record of the request with the table and the audit row count before it and
\* the outcome the same request has when nothing fails
Answer(op, entity, table, request, fault, r, clean) ==
    /\ Len(r.audit) <= MaxAuditRows
    /\ resp' = r.resp
    /\ AuditLogs' = r.audit
    /\ req' = [op |-> op, entity |-> entity, request |-> request, fault |-> fault,
               before |-> table, audits |-> Len(AuditLogs),
               clean |-> [success |-> clean.resp.success, table |-> clean.table]]
    /\ UNCHANGED <<clientVars, handling, replacing, now, ticks, dbVars, authVars>>

\* An insert needs a free row in the bounded table
Fits(table, r) == r.table = table \/ ~Found(table, 1)

VendorsPOST(request, body, fault) ==
    LET r == VendorsPOSTResult(body, fault)
    IN /\ Fits(Vendor, r)
       /\ Answer("POST /vendors", "Vendor", Vendor, request, fault, r, VendorsPOSTResult(body, "none"))
       /\ Vendor' = r.table
       /\ UNCHANGED <<Product, IOUniversal, IOMapping>>

VendorsPUT(request, id, body, fault) ==
    LET r == AuditedPUTResult(request, Vendor, VendorEntity, id, body, fault)
    IN /\ Answer("PUT /vendors/:id", "Vendor", Vendor, request, fault, r,
                 AuditedPUTResult(request, Vendor, VendorEntity, id, body, "none"))
       /\ Vendor' = r.table
       /\ UNCHANGED <<Product, IOUniversal, IOMapping>>

VendorsDELETE(request, id, fault) ==
    LET r == AuditedDELETEResult(request, Vendor, VendorEntity, id, fault)
    IN /\ Answer("DELETE /vendors/:id", "Vendor", Vendor, request, fault, r,
                 AuditedDELETEResult(request, Vendor, VendorEntity, id, "none"))
       /\ Vendor' = r.table
       /\ UNCHANGED <<Product, IOUniversal, IOMapping>>

ProductsPOST(request, body, fault) ==
    LET r == ProductsPOSTResult(request, body, fault)
    IN /\ Fits(Product, r)
       /\ Answer("POST /products", "Product", Product, request, fault, r,
                 ProductsPOSTResult(request, body, "none"))
       /\ Product' = r.table
       /\ UNCHANGED <<Vendor, IOUniversal, IOMapping>>

ProductsPUT(request, id, body, fault) ==
    LET r == AuditedPUTResult(request, Product, ProductEntity, id, body, fault)
    IN /\ Answer("PUT /products/:id", "Product", Product, request, fault, r,
                 AuditedPUTResult(request, Product, ProductEntity, id, body, "none"))
       /\ Product' = r.table
       /\ UNCHANGED <<Vendor, IOUniversal, IOMapping>>

ProductsDELETE(request, id, fault) ==
    LET r == AuditedDELETEResult(request, Product, ProductEntity, id, fault)
    IN /\ Answer("DELETE /products/:id", "Product", Product, request, fault, r,
                 AuditedDELETEResult(request, Product, ProductEntity, id, "none"))
       /\ Product' = r.table
       /\ UNCHANGED <<Vendor, IOUniversal, IOMapping>>

IOUniversalPOST(request, body, fault) ==
    LET r == IOUniversalPOSTResult(request, body, fault)
    IN /\ Answer("POST /io-universal", "IOUniversal", IOUniversal, request, fault, r,
                 IOUniversalPOSTResult(request, body, "none"))
       /\ IOUniversal' = r.table
       /\ UNCHANGED <<Vendor, Product, IOMapping>>

IOUniversalPUT(request, id, body, fault) ==
    LET r == AuditedPUTResult(request, IOUniversal, IOUniversalEntity, id, body, fault)
    IN /\ Answer("PUT /io-universal/:id", "IOUniversal", IOUniversal, request, fault, r,
                 AuditedPUTResult(request, IOUniversal, IOUniversalEntity, id, body, "none"))
       /\ IOUniversal' = r.table
       /\ UNCHANGED <<Vendor, Product, IOMapping>>

IOUniversalDELETE(request, id, fault) ==
    LET r == AuditedDELETEResult(request, IOUniversal, IOUniversalEntity, id, fault)
    IN /\ Answer("DELETE /io-universal/:id", "IOUniversal", IOUniversal, request, fault, r,
                 AuditedDELETEResult(request, IOUniversal, IOUniversalEntity, id, "none"))
       /\ IOUniversal' = r.table
       /\ UNCHANGED <<Vendor, Product, IOMapping>>

IOMappingsPOST(request, body, fault) ==
    LET r == IOMappingsPOSTResult(body, fault)
    IN /\ Fits(IOMapping, r)
       /\ Answer("POST /io-mappings", "IOMapping", IOMapping, request, fault, r, IOMappingsPOSTResult(body, "none"))
       /\ IOMapping' = r.table
       /\ UNCHANGED <<Vendor, Product, IOUniversal>>

IOMappingsPUT(request, id, body, fault) ==
    LET r == IOMappingsPUTResult(id, body, fault)
    IN /\ Answer("PUT /io-mappings/:id", "IOMapping", IOMapping, request, fault, r,
                 IOMappingsPUTResult(id, body, "none"))
       /\ IOMapping' = r.table
       /\ UNCHANGED <<Vendor, Product, IOUniversal>>

IOMappingsDELETE(request, id, fault) ==
    LET r == IOMappingsDELETEResult(id, fault)
    IN /\ Answer("DELETE /io-mappings/:id", "IOMapping", IOMapping, request, fault, r,
                 IOMappingsDELETEResult(id, "none"))
       /\ IOMapping' = r.table
       /\ UNCHANGED <<Vendor, Product, IOUniversal>>

\* Request bodies: JSON objects as parsed by request.json()
EmptyBody == [p \in {} |-> None]
VendorBody == (<<"VendorName">> :> Some("Acme"))
VendorBodies ==
    {VendorBody,
     VendorBody @@ (<<"Password">> :> Some("s3cret")),
     VendorBody @@ (<<"Meta", "Password">> :> Some("s3cret"))}
ProductBody == (<<"ProductName">> :> Some("Tracker")) @@ (<<"VendorID">> :> Some(1))
IOUniversalBody == (<<"IOID">> :> Some(1)) @@ (<<"IOName">> :> Some("io"))
IOMappingBody == (<<"IOID">> :> Some(1))

\* The requests sent to the catalog: anonymous and the browser's jar
CatalogRequests ==
    {Request(NoHeader, None, None),
     Request(NoHeader, cookies.accessToken, cookies.refreshToken)}

CatalogFaults == {"none", "query", "audit", "serialize"}

AdminLogin ==
    Login("admin", "admin123", "none", generateRandomToken(Len(RefreshTokens) + 1))

\* Each catalog entity has its own table and its own three handlers, and no
\* handler reads another entity's table: one specification per entity
NextVendors ==
    \/ AdminLogin
    \/ \E request \in CatalogRequests, body \in {VendorBody, EmptyBody},
          fault \in CatalogFaults : VendorsPOST(request, body, fault)
    \/ \E request \in CatalogRequests, body \in VendorBodies, fault \in CatalogFaults :
          VendorsPUT(request, 1, body, fault)
    \/ \E request \in CatalogRequests, fault \in CatalogFaults :
          VendorsDELETE(request, 1, fault)

SpecVendors == Init /\ [][NextVendors]_vars

NextProducts ==
    \/ AdminLogin
    \/ \E request \in CatalogRequests, body \in {ProductBody, EmptyBody},
          fault \in CatalogFaults : ProductsPOST(request, body, fault)
    \/ \E request \in CatalogRequests, fault \in CatalogFaults :
          ProductsPUT(request, 1, ProductBody, fault)
    \/ \E request \in CatalogRequests, fault \in CatalogFaults :
          ProductsDELETE(request, 1, fault)

SpecProducts == Init /\ [][NextProducts]_vars

NextIOUniversal ==
    \/ AdminLogin
    \/ \E request \in CatalogRequests, body \in {IOUniversalBody, EmptyBody},
          fault \in CatalogFaults : IOUniversalPOST(request, body, fault)
    \/ \E request \in CatalogRequests, fault \in CatalogFaults :
          IOUniversalPUT(request, 1, IOUniversalBody, fault)
    \/ \E request \in CatalogRequests, fault \in CatalogFaults :
          IOUniversalDELETE(request, 1, fault)

SpecIOUniversal == Init /\ [][NextIOUniversal]_vars

NextIOMappings ==
    \/ AdminLogin
    \/ \E request \in CatalogRequests, body \in {IOMappingBody, EmptyBody},
          fault \in CatalogFaults : IOMappingsPOST(request, body, fault)
    \/ \E request \in CatalogRequests, fault \in CatalogFaults :
          IOMappingsPUT(request, 1, IOMappingBody, fault)
    \/ \E request \in CatalogRequests, fault \in CatalogFaults :
          IOMappingsDELETE(request, 1, fault)

SpecIOMappings == Init /\ [][NextIOMappings]_vars

-----------------------------------------------------------------------------
(* PUT /vendors/:id and DELETE /vendors/:id query by query, several handlers at
   a time: a handler reads the old row with its SELECT, and other handlers run
   before it applies its UPDATE or DELETE and writes its audit entry *)

\* From getAuthUser to SELECT * FROM Vendor WHERE VendorID = @VendorID
VendorsSelect(h, op, request, id, body) ==
    /\ handling[h].pc = "idle"
    /\ handling' = [handling EXCEPT ![h] =
                       [pc |-> "selected", op |-> op, request |-> request,
                        user |-> getAuthUser(request, "none"), id |-> id, body |-> body,
                        oldVendor |-> IF Found(Vendor, id) THEN Some(Vendor[id]) ELSE None]]
    /\ UNCHANGED <<clientVars, replacing, now, ticks, dbVars, entVars, authVars,
                   AuditLogs, req, resp>>

\* oldVendor ? sanitizeForAudit(oldVendor) : undefined
OldValueOf(id, oldVendor) ==
    IF IsSome(oldVendor)
    THEN Some(sanitizeForAudit(Snapshot("VendorID", "VendorName", id, Val(oldVendor))))
    ELSE None

\* From the UPDATE or DELETE of a handler to its response
VendorsMutateResult(h) ==
    LET c == handling[h]
        put == c.op = "PUT /vendors/:id"
        table == IF put
                 THEN [Vendor EXCEPT ![c.id] = Stored(Val(Prop(c.body, "VendorName")))]
                 ELSE [Vendor EXCEPT ![c.id] = NoRow]
        log == EntityLog(c.user, IF put THEN "UPDATE" ELSE "DELETE", "Vendors", c.id,
                         OldValueOf(c.id, c.oldVendor),
                         IF put THEN Some(sanitizeForAudit(c.body)) ELSE None)
    IN IF ~Found(Vendor, c.id)
       THEN Outcome(Json(404, FALSE, "Vendor not found"), Vendor, AuditLogs)
       ELSE Outcome(Json(200, TRUE, ""), table, createAuditLog(log, "none"))

VendorsMutate(h) ==
    /\ handling[h].pc = "selected"
    /\ LET r == VendorsMutateResult(h)
       IN /\ Len(r.audit) <= MaxAuditRows
          /\ resp' = r.resp
          /\ Vendor' = r.table
          /\ AuditLogs' = r.audit
    /\ req' = [op |-> handling[h].op, id |-> handling[h].id, handler |-> h,
               before |-> Vendor, audits |-> Len(AuditLogs)]
    /\ handling' = [handling EXCEPT ![h] = NotHandling]
    /\ UNCHANGED <<clientVars, replacing, now, ticks, dbVars, authVars,
                   Product, IOUniversal, IOMapping>>

OtherVendorBody == (<<"VendorName">> :> Some("Apex"))

NextHandlers ==
    \/ \E request \in CatalogRequests : VendorsPOST(request, VendorBody, "none")
    \/ \E h \in 1..MaxHandlers, request \in CatalogRequests,
          body \in {VendorBody, OtherVendorBody} :
            VendorsSelect(h, "PUT /vendors/:id", request, 1, body)
    \/ \E h \in 1..MaxHandlers, request \in CatalogRequests :
            VendorsSelect(h, "DELETE /vendors/:id", request, 1, EmptyBody)
    \/ \E h \in 1..MaxHandlers : VendorsMutate(h)

SpecHandlers == Init /\ [][NextHandlers]_vars

-----------------------------------------------------------------------------
(* Login attempts of every kind, with users being deactivated meanwhile *)

Deactivation == [IsActive |-> Some(FALSE), Password |-> None, RoleIds |-> None]

NextLogin ==
    \/ \E username \in Usernames, password \in {"admin123", "bobpw"},
          fault \in {"none", "audit"} :
            Login(username, password, fault, generateRandomToken(Len(RefreshTokens) + 1))
    \/ \E request \in ClientRequests, id \in UserIDs :
          PutUser(request, id, Deactivation, "none")
    \/ Tick(JWT_EXPIRES_IN)

SpecLogin == Init /\ [][NextLogin]_vars

-----------------------------------------------------------------------------
(* requireAuth and GET /auth/me *)

\* requireAuth: the 401 response, or null
requireAuth(request, fault) ==
    IF ~IsSome(getAuthUser(request, fault)) THEN Some(Unauthorized) ELSE None

RequireAuth(request, fault) ==
    /\ LET response == requireAuth(request, fault)
       IN resp' = IF IsSome(response) THEN Val(response) ELSE Json(200, TRUE, "")
    /\ req' = [op |-> "requireAuth", request |-> request, fault |-> fault]
    /\ UNCHANGED <<clientVars, handling, replacing, now, ticks, dbVars, entVars, authVars, AuditLogs>>

\* STRING_AGG(r.RoleName, ', ') ... split(', '): the names of the user's roles
RoleNamesOf(userId) == {Roles[r].RoleName : r \in RolesOf(userId)}

GetMeResult(request, fault) ==
    LET tokenUser == getAuthUser(request, fault)
        userId == Val(tokenUser).userId
        fail(r) == [status |-> r.status, success |-> FALSE, error |-> r.error,
                    data |-> None]
    IN IF ~IsSome(tokenUser) THEN fail(Json(401, FALSE, "Not authenticated"))
       ELSE IF fault = "query" THEN fail(InternalError)
       ELSE IF ~Users[userId].present \/ ~Users[userId].IsActive
       THEN fail(Json(404, FALSE, "User not found"))
       ELSE [status |-> 200, success |-> TRUE, error |-> "",
             data |-> Some([UserID |-> userId, Username |-> Users[userId].Username,
                            Roles |-> RoleNamesOf(userId),
                            Permissions |-> Val(tokenUser).permissions])]

GetMe(request, fault) ==
    /\ resp' = GetMeResult(request, fault)
    /\ req' = [op |-> "GET /auth/me", request |-> request, fault |-> fault]
    /\ UNCHANGED <<clientVars, handling, replacing, now, ticks, dbVars, entVars, authVars, AuditLogs>>

\* PUT /users/:id bodies that switch IsActive off and on
Reactivation == [IsActive |-> Some(TRUE), Password |-> None, RoleIds |-> None]

NextMe ==
    \/ \E c \in Credentials :
          Login(c[1], c[2], "none", generateRandomToken(Len(RefreshTokens) + 1))
    \/ \E request \in ClientRequests, id \in UserIDs, body \in {Deactivation, Reactivation} :
          PutUser(request, id, body, "none")
    \/ \E request \in GateRequests, fault \in {"none", "auth"} : RequireAuth(request, fault)
    \/ \E request \in GateRequests, fault \in {"none", "auth", "query"} :
          GetMe(request, fault)
    \/ Tick(JWT_EXPIRES_IN)

SpecMe == Init /\ [][NextMe]_vars

-----------------------------------------------------------------------------
(* POST /auth/change-password *)

PasswordBody(currentPassword, newPassword, confirmPassword) ==
    [currentPassword |-> currentPassword, newPassword |-> newPassword,
     confirmPassword |-> confirmPassword]

PasswordLog(user) ==
    [UserID |-> Some(Val(user).userId), Username |-> Some(Val(user).username),
     Action |-> "UPDATE", Module |-> "Users", RecordID |-> Some(Val(user).userId),
     OldValue |-> None, NewValue |-> None]

\* change-password without the comparison of currentPassword with the stored hash
ChangePasswordResultNoVerify(request, body, fault) ==
    LET user == getAuthUser(request, fault)
        userId == Val(user).userId
        same(r) == [resp |-> r, users |-> Users, audit |-> AuditLogs]
    IN IF ~IsSome(user) THEN same(Json(401, FALSE, "Not authenticated"))
       ELSE IF ~truthy(body.currentPassword) \/ ~truthy(body.newPassword)
               \/ ~truthy(body.confirmPassword)
       THEN same(Json(400, FALSE, "All fields are required"))
       ELSE IF Val(body.newPassword) # Val(body.confirmPassword)
       THEN same(Json(400, FALSE, "New passwords do not match"))
       ELSE IF Len(Val(body.newPassword)) < 6
       THEN same(Json(400, FALSE, "New password must be at least 6 characters"))
       ELSE IF fault = "query" THEN same(Json(500, FALSE, "Failed to change password"))
       ELSE IF ~Users[userId].present \/ ~Users[userId].IsActive
       THEN same(Json(404, FALSE, "User not found"))
       ELSE [resp |-> Json(200, TRUE, ""),
             users |-> [Users EXCEPT ![userId].PasswordHash =
                                         hashPassword(Val(body.newPassword))],
             audit |-> createAuditLog(PasswordLog(user), fault)]

\* What change-password does: the response and the tables after it
ChangePasswordResult(request, body, fault) ==
    LET user == getAuthUser(request, fault)
        userId == Val(user).userId
        same(r) == [resp |-> r, users |-> Users, audit |-> AuditLogs]
    IN IF ~IsSome(user) THEN same(Json(401, FALSE, "Not authenticated"))
       ELSE IF ~truthy(body.currentPassword) \/ ~truthy(body.newPassword)
               \/ ~truthy(body.confirmPassword)
       THEN same(Json(400, FALSE, "All fields are required"))
       ELSE IF Val(body.newPassword) # Val(body.confirmPassword)
       THEN same(Json(400, FALSE, "New passwords do not match"))
       ELSE IF Len(Val(body.newPassword)) < 6
       THEN same(Json(400, FALSE, "New password must be at least 6 characters"))
       ELSE IF fault = "query" THEN same(Json(500, FALSE, "Failed to change password"))
       ELSE IF ~Users[userId].present \/ ~Users[userId].IsActive
       THEN same(Json(404, FALSE, "User not found"))
       ELSE IF ~verifyPassword(Val(body.currentPassword), Users[userId].PasswordHash)
       THEN same(Json(400, FALSE, "Current password is incorrect"))
       ELSE [resp |-> Json(200, TRUE, ""),
             users |-> [Users EXCEPT ![userId].PasswordHash =
                                         hashPassword(Val(body.newPassword))],
             audit |-> createAuditLog(PasswordLog(user), fault)]

ChangePassword(request, body, fault) ==
    /\ LET r == ChangePasswordResult(request, body, fault)
       IN /\ Len(r.audit) <= MaxAuditRows
          /\ resp' = r.resp
          /\ Users' = r.users
          /\ AuditLogs' = r.audit
    /\ req' = [op |-> "POST /auth/change-password", request |-> request,
               body |-> body, fault |-> fault, before |-> Users]
    /\ UNCHANGED <<clientVars, handling, replacing, now, ticks, Roles, UserRoles, RolePermissions,
                   entVars, authVars>>

\* The bodies sent: a change to a new password by its owner and by another
\* user, a change back, a new password that is too short, unconfirmed or the
\* old one, no current password
PasswordBodies ==
    {PasswordBody(Some("admin123"), Some("hunter22"), Some("hunter22")),
     PasswordBody(Some("bobpw"), Some("hunter22"), Some("hunter22")),
     PasswordBody(Some("hunter22"), Some("admin123"), Some("admin123")),
     PasswordBody(Some("admin123"), Some("short"), Some("short")),
     PasswordBody(Some("admin123"), Some("hunter22"), Some("short")),
     PasswordBody(Some("admin123"), Some("admin123"), Some("admin123")),
     PasswordBody(None, Some("hunter22"), Some("hunter22"))}

NextPassword ==
    \/ \E username \in {"admin", "bob"}, password \in {"admin123", "hunter22"} :
          Login(username, password, "none", generateRandomToken(Len(RefreshTokens) + 1))
    \/ \E request \in CatalogRequests, body \in PasswordBodies,
          fault \in {"none", "auth", "query", "audit"} :
            ChangePassword(request, body, fault)
    \/ \E request \in ClientRequests :
          PutUser(request, 1, [IsActive |-> Some(FALSE), Password |-> None,
                               RoleIds |-> None], "none")

SpecPassword == Init /\ [][NextPassword]_vars

-----------------------------------------------------------------------------
(* The list endpoints: GET /vendors, GET /users, GET /audit-logs *)

\* A query-string value is a sequence of characters; a number that is not one
\* (NaN) is None
NaN == None

DigitValue ==
    [c \in {"0", "1", "2", "3", "4", "5", "6", "7", "8", "9"} |->
        CASE c = "0" -> 0 [] c = "1" -> 1 [] c = "2" -> 2 [] c = "3" -> 3
          [] c = "4" -> 4 [] c = "5" -> 5 [] c = "6" -> 6 [] c = "7" -> 7
          [] c = "8" -> 8 [] c = "9" -> 9]

\* The value of the digits a string starts with, after the digits read so far
RECURSIVE LeadingDigits(_, _)
LeadingDigits(s, sofar) ==
    IF s = <<>> \/ Head(s) \notin DOMAIN DigitValue THEN sofar
    ELSE LeadingDigits(Tail(s), 10 * sofar + DigitValue[Head(s)])

\* parseInt(string): an optional sign, then the digits up to the first other
\* character; NaN when there is no digit
parseInt(s) ==
    LET signed == s # <<>> /\ Head(s) \in {"+", "-"}
        digits == IF signed THEN Tail(s) ELSE s
    IN IF digits = <<>> \/ Head(digits) \notin DOMAIN DigitValue THEN NaN
       ELSE IF signed /\ Head(s) = "-" THEN Some(0 - LeadingDigits(digits, 0))
       ELSE Some(LeadingDigits(digits, 0))

\* searchParams.get(name) || fallback
OrDefault(param, fallback) ==
    IF IsSome(param) /\ Val(param) # <<>> THEN Val(param) ELSE fallback

\* Math.ceil(total / pageSize) for a positive pageSize
ceil(total, pageSize) == 0 - ((0 - total) \div pageSize)

\* ... OFFSET @offset ROWS FETCH NEXT @pageSize ROWS ONLY: the store rejects a
\* parameter that is not a number, a negative offset and a row count below 1
OffsetFetch(rows, offset, pageSize) ==
    IF ~IsSome(offset) \/ ~IsSome(pageSize) THEN [threw |-> TRUE, recordset |-> <<>>]
    ELSE IF Val(offset) < 0 \/ Val(pageSize) < 1 THEN [threw |-> TRUE, recordset |-> <<>>]
    ELSE [threw |-> FALSE,
          recordset |-> SubSeq(rows, Val(offset) + 1,
                               IF Val(offset) + Val(pageSize) < Len(rows)
                               THEN Val(offset) + Val(pageSize) ELSE Len(rows))]

Page(data, total, page, pageSize, totalPages) ==
    [status |-> 200, success |-> TRUE, error |-> "", data |-> data, total |-> total,
     page |-> page, pageSize |-> pageSize, totalPages |-> totalPages]

\* A list handler that counts the pages rounding down
ListResultRoundingDown(rows, query, defaultPageSize, failure, fault) ==
    LET page == parseInt(OrDefault(query.page, <<"1">>))
        pageSize == parseInt(OrDefault(query.pageSize, defaultPageSize))
        offset == IF IsSome(page) /\ IsSome(pageSize)
                  THEN Some((Val(page) - 1) * Val(pageSize)) ELSE NaN
        result == OffsetFetch(rows, offset, pageSize)
    IN IF fault = "query" \/ result.threw THEN Json(500, FALSE, failure)
       ELSE Page(result.recordset, Len(rows), Val(page), Val(pageSize),
                 Len(rows) \div Val(pageSize))

\* The body every list handler shares: parse page and pageSize, count the rows,
\* read one page, answer with the page and the page count
ListResult(rows, query, defaultPageSize, failure, fault) ==
    LET page == parseInt(OrDefault(query.page, <<"1">>))
        pageSize == parseInt(OrDefault(query.pageSize, defaultPageSize))
        offset == IF IsSome(page) /\ IsSome(pageSize)
                  THEN Some((Val(page) - 1) * Val(pageSize)) ELSE NaN
        result == OffsetFetch(rows, offset, pageSize)
    IN IF fault = "query" \/ result.threw THEN Json(500, FALSE, failure)
       ELSE Page(result.recordset, Len(rows), Val(page), Val(pageSize),
                 ceil(Len(rows), Val(pageSize)))

\* SELECT ... FROM Vendor ORDER BY VendorName
VendorRows == Ascending({i \in DOMAIN Vendor : Vendor[i].present})

\* SELECT ... FROM Users u ORDER BY u.Username
UserRows == Ascending({u \in UserIDs : Users[u].present})

\* SELECT ... FROM AuditLogs a ORDER BY a.Timestamp DESC
AuditRows == [i \in 1..Len(AuditLogs) |-> Len(AuditLogs) + 1 - i]

\* GET /vendors
GetVendorsResult(query, fault) ==
    ListResult(VendorRows, query, <<"1", "0">>, "Failed to fetch vendors", fault)

\* GET /users with its query string
GetUsersPage(request, query, fault) ==
    IF GetUsersResult(request, fault).status = 200
    THEN ListResult(UserRows, query, <<"1", "0">>, "Failed to fetch users", fault)
    ELSE GetUsersResult(request, fault)

\* GET /audit-logs with its query string
GetAuditLogsPage(request, query, fault) ==
    IF GetAuditLogsResult(request, fault).status = 200
    THEN ListResult(AuditRows, query, <<"2", "5">>, "Failed to fetch audit logs", fault)
    ELSE GetAuditLogsResult(request, fault)

\* A list request answered: the response, and the request with its query
Listed(op, request, query, fault, response) ==
    /\ resp' = response
    /\ req' = [op |-> op, request |-> request, query |-> query, fault |-> fault]
    /\ UNCHANGED <<clientVars, handling, replacing, now, ticks, dbVars, entVars, authVars, AuditLogs>>

GetVendors(request, query, fault) ==
    Listed("GET /vendors", request, query, fault, GetVendorsResult(query, fault))

GetUsersList(request, query, fault) ==
    Listed("GET /users", request, query, fault, GetUsersPage(request, query, fault))

GetAuditLogsList(request, query, fault) ==
    Listed("GET /audit-logs", request, query, fault,
           GetAuditLogsPage(request, query, fault))

\* The values of page sent: absent, 0, 1, 2, -1, a word
PageParams ==
    {None, Some(<<"0">>), Some(<<"1">>), Some(<<"2">>), Some(<<"-", "1">>),
     Some(<<"a", "b", "c">>)}

\* The values of pageSize sent: absent, empty, 0, 1, 3, -1, a number with a
\* fraction, a word
PageSizeParams ==
    {None, Some(<<>>), Some(<<"0">>), Some(<<"1">>), Some(<<"3">>),
     Some(<<"-", "1">>), Some(<<"2", ".", "7">>), Some(<<"a", "b", "c">>)}

Queries == {[page |-> p, pageSize |-> s] : p \in PageParams, s \in PageSizeParams}

\* The list requests of the browser: its jar, whatever it holds
JarRequest == Request(NoHeader, cookies.accessToken, cookies.refreshToken)

NextLists ==
    \/ AdminLogin
    \/ \E request \in CatalogRequests, fault \in {"none", "query"} :
          VendorsPOST(request, VendorBody, fault)
    \/ \E query \in Queries, fault \in {"none", "query"} :
          GetVendors(JarRequest, query, fault)
    \/ \E query \in Queries, fault \in {"none", "query"} :
          GetUsersList(JarRequest, query, fault)
    \/ \E query \in Queries, fault \in {"none", "query"} :
          GetAuditLogsList(JarRequest, query, fault)

SpecLists == Init /\ [][NextLists]_vars

-----------------------------------------------------------------------------
(* Client Session Controller: src/contexts/AuthContext.tsx *)

\* What fetch gives a call: a response (status, parsed body) or a network error
Fetched(status, success, data) ==
    [network |-> FALSE, status |-> status, success |-> success, data |-> data]
NetworkError == [network |-> TRUE, status |-> 0, success |-> FALSE, data |-> None]

\* response.ok
ok(response) == response.status >= 200 /\ response.status <= 299

\* The answers of GET /auth/me: the profile, 401, 404, 500, no answer
MeResponses ==
    {Fetched(200, TRUE, Some(u)) : u \in UserIDs}
      \cup {Fetched(401, FALSE, None), Fetched(404, FALSE, None),
            Fetched(500, FALSE, None), NetworkError}

\* The answers of POST /auth/login
LoginResponses ==
    {Fetched(200, TRUE, Some(u)) : u \in UserIDs}
      \cup {Fetched(401, FALSE, None), Fetched(500, FALSE, None), NetworkError}

\* refreshUser that reports an expired session on every 401
refreshUserAlwaysExpires(c, response) ==
    IF response.network THEN [c EXCEPT !.user = None, !.isLoading = FALSE]
    ELSE IF ok(response)
    THEN IF response.success /\ IsSome(response.data)
         THEN [c EXCEPT !.user = response.data, !.sessionExpired = FALSE,
                        !.wasLoggedInRef = TRUE, !.isLoading = FALSE]
         ELSE [c EXCEPT !.user = None, !.isLoading = FALSE]
    ELSE IF response.status = 401
    THEN [c EXCEPT !.sessionExpired = TRUE, !.wasLoggedInRef = FALSE,
                   !.user = None, !.isLoading = FALSE]
    ELSE [c EXCEPT !.user = None, !.isLoading = FALSE]

\* refreshUser, from the answer of its fetch on: the controller after it
refreshUser(c, response) ==
    IF response.network THEN [c EXCEPT !.user = None, !.isLoading = FALSE]
    ELSE IF ok(response)
    THEN IF response.success /\ IsSome(response.data)
         THEN [c EXCEPT !.user = response.data, !.sessionExpired = FALSE,
                        !.wasLoggedInRef = TRUE, !.isLoading = FALSE]
         ELSE [c EXCEPT !.user = None, !.isLoading = FALSE]
    ELSE IF response.status = 401
    THEN IF c.wasLoggedInRef
         THEN [c EXCEPT !.sessionExpired = TRUE, !.wasLoggedInRef = FALSE,
                        !.user = None, !.isLoading = FALSE]
         ELSE [c EXCEPT !.user = None, !.isLoading = FALSE]
    ELSE [c EXCEPT !.user = None, !.isLoading = FALSE]

\* checkSession that takes every failed answer for an expired session
checkSessionAnyError(c, response) ==
    IF response.network THEN [controller |-> c, valid |-> TRUE]
    ELSE IF ok(response) /\ response.success /\ IsSome(response.data)
    THEN [controller |-> c, valid |-> TRUE]
    ELSE IF ~ok(response) /\ c.wasLoggedInRef
    THEN [controller |-> [c EXCEPT !.sessionExpired = TRUE, !.wasLoggedInRef = FALSE,
                                   !.user = None],
          valid |-> FALSE]
    ELSE [controller |-> c, valid |-> ok(response)]

\* checkSession, from the answer of its fetch on: the controller after it and
\* the boolean it resolves to
checkSession(c, response) ==
    IF response.network THEN [controller |-> c, valid |-> TRUE]
    ELSE IF ok(response) /\ response.success /\ IsSome(response.data)
    THEN [controller |-> c, valid |-> TRUE]
    ELSE IF response.status = 401 /\ c.wasLoggedInRef
    THEN [controller |-> [c EXCEPT !.sessionExpired = TRUE, !.wasLoggedInRef = FALSE,
                                   !.user = None],
          valid |-> FALSE]
    ELSE [controller |-> c, valid |-> ok(response)]

\* login that leaves the sessionExpired flag as it finds it
loginKeepsExpired(c, response) ==
    IF response.network THEN c
    ELSE IF response.success /\ IsSome(response.data)
    THEN [c EXCEPT !.user = response.data, !.wasLoggedInRef = TRUE]
    ELSE c

\* login, from the answer of its fetch on
login(c, response) ==
    IF response.network THEN c
    ELSE IF response.success /\ IsSome(response.data)
    THEN [c EXCEPT !.user = response.data, !.sessionExpired = FALSE,
                   !.wasLoggedInRef = TRUE]
    ELSE c

\* logout: setUser(null) whatever the fetch gave
logout(c) == [c EXCEPT !.user = None]

clearSessionExpired(c) == [c EXCEPT !.sessionExpired = FALSE]

\* A successful authentication as the controller sees it: a probe or a login
\* answered with the profile
Authenticates(response) ==
    ~response.network /\ response.success /\ IsSome(response.data)

\* A call starts: its fetch is on the way
Call(op) ==
    /\ calls.pending[op] < MaxInFlight
    /\ calls' = [calls EXCEPT !.pending[op] = @ + 1]
    /\ UNCHANGED <<client, ui, replacing, handling, now, ticks, dbVars, entVars, authVars, AuditLogs,
                   req, resp>>

\* A call in flight gets its answer and runs to its end
Answered(op, response, after) ==
    /\ calls.pending[op] > 0
    /\ client' = after
    /\ calls' = [pending |-> [calls.pending EXCEPT ![op] = @ - 1],
                 observed |-> calls.observed
                               \/ (op # "logout" /\ Authenticates(response)),
                 last |-> [op |-> op, response |-> response, before |-> client,
                           observed |-> calls.observed]]
    /\ UNCHANGED <<ui, replacing, handling, now, ticks, dbVars, entVars, authVars, AuditLogs,
                   req, resp>>

RefreshUserAnswered(response) ==
    Answered("refreshUser", response, refreshUser(client, response))

CheckSessionAnswered(response) ==
    Answered("checkSession", response, checkSession(client, response).controller)

LoginAnswered(response) == Answered("login", response, login(client, response))

LogoutAnswered(response) == Answered("logout", response, logout(client))

ClearSessionExpired ==
    /\ client.sessionExpired
    /\ client' = clearSessionExpired(client)
    /\ calls' = [calls EXCEPT !.last = [op |-> "clearSessionExpired",
                                        response |-> NetworkError, before |-> client,
                                        observed |-> calls.observed]]
    /\ UNCHANGED <<ui, replacing, handling, now, ticks, dbVars, entVars, authVars, AuditLogs,
                   req, resp>>

NextClient ==
    \/ \E op \in ClientCalls : Call(op)
    \/ \E response \in MeResponses : RefreshUserAnswered(response)
    \/ \E response \in MeResponses : CheckSessionAnswered(response)
    \/ \E response \in LoginResponses : LoginAnswered(response)
    \/ \E response \in {Fetched(200, TRUE, None), NetworkError} : LogoutAnswered(response)
    \/ ClearSessionExpired

SpecClient == Init /\ [][NextClient]_vars

-----------------------------------------------------------------------------
(* The controller in the browser against the server: each call sends the
   browser's cookie jar and is answered by the route's handler *)

\* A call of the controller answered by the server
Served(op, response, after) ==
    /\ client' = after
    /\ calls' = [pending |-> calls.pending,
                 observed |-> calls.observed
                               \/ (op # "logout" /\ Authenticates(response)),
                 last |-> [op |-> op, response |-> response, before |-> client,
                           observed |-> calls.observed, prior |-> calls.last.op]]

\* The answer of POST /auth/login as fetch hands it to the controller
LoginFetched(username, password, fault) ==
    LET r == LoginResult(username, password, fault,
                         generateRandomToken(Len(RefreshTokens) + 1))
    IN Fetched(r.resp.status, r.resp.success,
               IF r.resp.success THEN Some(r.sessions[Len(r.sessions)].userId) ELSE None)

\* POST /auth/login at the server, the same assignments as Login
LoginHandled(username, password, fault) ==
    LET r == LoginResult(username, password, fault,
                         generateRandomToken(Len(RefreshTokens) + 1))
    IN /\ Len(r.audit) <= MaxAuditRows
       /\ Len(r.sessions) <= MaxSessions
       /\ resp' = [status |-> r.resp.status, success |-> r.resp.success,
                   error |-> r.resp.error, data |-> r.data]
       /\ AuditLogs' = r.audit
       /\ RefreshTokens' = r.tokens
       /\ cookies' = r.cookies
       /\ sessions' = r.sessions
       /\ req' = [op |-> "login", username |-> username, password |-> password,
                  fault |-> fault, tokens |-> RefreshTokens,
                  audits |-> Len(AuditLogs), at |-> now]

\* login(username, password) answered by POST /auth/login
BrowserLogin(username, password, fault) ==
    /\ LoginHandled(username, password, fault)
    /\ Served("login", LoginFetched(username, password, fault),
              login(client, LoginFetched(username, password, fault)))
    /\ UNCHANGED <<ui, replacing, handling, now, ticks, dbVars, entVars>>

\* POST /auth/logout at the server, sent with the browser's jar
LogoutHandled(fault) ==
    LET r == LogoutResult(JarRequest, fault)
    IN /\ Len(r.audit) <= MaxAuditRows
       /\ resp' = r.resp
       /\ AuditLogs' = r.audit
       /\ RefreshTokens' = r.tokens
       /\ cookies' = r.cookies
       /\ sessions' = IF r.resp.success
                      THEN MarkLoggedOut(JarRequest.refreshToken)
                      ELSE sessions
       /\ req' = [op |-> "logout", request |-> JarRequest]

\* The answer of POST /auth/logout as fetch hands it to the controller
LogoutFetched(fault) ==
    LET r == LogoutResult(JarRequest, fault)
    IN Fetched(r.resp.status, r.resp.success, None)

\* logout() answered by POST /auth/logout
BrowserLogout(fault) ==
    /\ LogoutHandled(fault)
    /\ Served("logout", LogoutFetched(fault), logout(client))
    /\ UNCHANGED <<ui, replacing, handling, now, ticks, dbVars, entVars>>

\* logout() whose fetch fails: the request never reaches the server
BrowserLogoutLost ==
    /\ Served("logout", NetworkError, logout(client))
    /\ UNCHANGED <<ui, replacing, handling, now, ticks, dbVars, entVars, authVars, AuditLogs,
                   req, resp>>

\* The answer of GET /auth/me as fetch hands it to the controller
MeFetched(fault) ==
    LET r == GetMeResult(JarRequest, fault)
    IN Fetched(r.status, r.success,
               IF IsSome(r.data) THEN Some(Val(r.data).UserID) ELSE None)

\* GET /auth/me at the server, sent with the browser's jar
MeHandled(fault) ==
    /\ resp' = GetMeResult(JarRequest, fault)
    /\ req' = [op |-> "GET /auth/me", request |-> JarRequest, fault |-> fault]

\* refreshUser() answered by GET /auth/me
BrowserRefreshUser(fault) ==
    /\ MeHandled(fault)
    /\ Served("refreshUser", MeFetched(fault), refreshUser(client, MeFetched(fault)))
    /\ UNCHANGED <<ui, replacing, handling, now, ticks, dbVars, entVars, authVars, AuditLogs>>

\* checkSession() answered by GET /auth/me
BrowserCheckSession(fault) ==
    /\ MeHandled(fault)
    /\ Served("checkSession", MeFetched(fault),
              checkSession(client, MeFetched(fault)).controller)
    /\ UNCHANGED <<ui, replacing, handling, now, ticks, dbVars, entVars, authVars, AuditLogs>>

NextBrowser ==
    \/ \E c \in Credentials, fault \in {"none", "query"} : BrowserLogin(c[1], c[2], fault)
    \/ \E fault \in {"none", "query", "audit"} : BrowserLogout(fault)
    \/ BrowserLogoutLost
    \/ \E fault \in {"none", "query"} : BrowserRefreshUser(fault)
    \/ \E fault \in {"none", "query"} : BrowserCheckSession(fault)
    \/ Tick(JWT_EXPIRES_IN)

SpecBrowser == Init /\ [][NextBrowser]_vars

-----------------------------------------------------------------------------
(* The pages around the controller: ClientLayout, the login page and the
   Navbar (src/components/layout/Navbar.tsx). A handler runs to its end and
   React commits the controller's batched state changes in one render. *)

\* Pages that don't require authentication; of the paths below only "/login"
\* starts with one of them
publicPaths == {"/login"}

isPublicPath(pathname) == \E path \in publicPaths : pathname = path

\* The targets of the Navbar's links
NavigationHrefs == {"/", "/vendors"}

\* Where the redirect effects leave the browser: ClientLayout sends a page
\* that needs authentication to /login when nobody is authenticated, the login
\* page sends an authenticated user to /
Redirected(c, pathname) ==
    IF ~c.isLoading /\ ~IsSome(c.user) /\ ~isPublicPath(pathname) THEN "/login"
    ELSE IF pathname = "/login" /\ ~c.isLoading /\ IsSome(c.user) THEN "/"
    ELSE pathname

\* ClientLayout renders <Navbar /> on a protected page of an authenticated user
RendersNavbar(c, pathname) ==
    ~c.isLoading /\ ~isPublicPath(pathname) /\ IsSome(c.user)

\* The page after React has committed controller c (it was before) at pathname
\* and the effects have run. A Navbar that stays mounted keeps its modal state
\* and runs its effect when sessionExpired changed; a new one starts with the
\* modal closed and runs its effect once.
Rendered(page, before, c, pathname, clicked, pushed) ==
    LET to == Redirected(c, pathname)
        kept == page.navbar /\ to = pathname /\ RendersNavbar(c, to)
        effect == ~kept \/ before.sessionExpired # c.sessionExpired
    IN [pathname |-> to,
        navbar |-> RendersNavbar(c, to),
        isSessionExpiredModalOpen |->
            RendersNavbar(c, to)
              /\ (IF effect /\ c.sessionExpired THEN TRUE
                  ELSE kept /\ page.isSessionExpiredModalOpen),
        clicked |-> clicked,
        pushed |-> pushed]

\* A handler of a page has run: the controller, its call record and the page
Handled(op, response, page, before, after, pathname, clicked, pushed) ==
    /\ client' = after
    /\ calls' = [pending |-> calls.pending,
                 observed |-> calls.observed
                               \/ (op # "logout" /\ Authenticates(response)),
                 last |-> [op |-> op, response |-> response, before |-> before,
                           observed |-> calls.observed, prior |-> calls.last.op]]
    /\ ui' = Rendered(page, before, after, pathname, clicked, pushed)

\* The browser opens or reloads the application at a path: a new AuthProvider
\* mounts and its effect calls refreshUser()
PageLoad(pathname, fault) ==
    /\ MeHandled(fault)
    /\ Handled("refreshUser", MeFetched(fault), FirstPage, NewController,
               refreshUser(NewController, MeFetched(fault)), pathname, None, None)
    /\ UNCHANGED <<replacing, handling, now, ticks, dbVars, entVars, authVars, AuditLogs>>

\* handleSubmit of the login page: login(), then router.push('/') on success
handleSubmit(username, password, fault) ==
    LET response == LoginFetched(username, password, fault)
        success == ~response.network /\ response.success /\ IsSome(response.data)
    IN /\ ui.pathname = "/login"
       /\ ~client.isLoading
       /\ ~IsSome(client.user)
       /\ LoginHandled(username, password, fault)
       /\ Handled("login", response, ui, client, login(client, response),
                  IF success THEN "/" ELSE ui.pathname,
                  None, IF success THEN Some("/") ELSE None)
       /\ UNCHANGED <<replacing, handling, now, ticks, dbVars, entVars>>

\* handleNavClick(e, href): checkSession(), then router.push(href) when it
\* resolved to true
handleNavClick(href, fault) ==
    LET r == checkSession(client, MeFetched(fault))
    IN /\ ui.navbar
       /\ ~ui.isSessionExpiredModalOpen
       /\ MeHandled(fault)
       /\ Handled("checkSession", MeFetched(fault), ui, client, r.controller,
                  IF r.valid THEN href ELSE ui.pathname,
                  Some(href), IF r.valid THEN Some(href) ELSE None)
       /\ UNCHANGED <<replacing, handling, now, ticks, dbVars, entVars, authVars,
                      AuditLogs>>

\* handleLogout: logout(), then router.push('/login')
handleLogout(fault) ==
    /\ ui.navbar
    /\ ~ui.isSessionExpiredModalOpen
    /\ LogoutHandled(fault)
    /\ Handled("logout", LogoutFetched(fault), ui, client, logout(client),
               "/login", None, Some("/login"))
    /\ UNCHANGED <<replacing, handling, now, ticks, dbVars, entVars>>

\* handleSessionExpiredLogout, the modal's button and its onClose: close the
\* modal, clearSessionExpired(), router.push('/login'). It runs from an open
\* modal only, which no page NextPage reaches shows, so NextPage leaves it out.
handleSessionExpiredLogout ==
    /\ ui.navbar
    /\ ui.isSessionExpiredModalOpen
    /\ client' = clearSessionExpired(client)
    /\ calls' = [calls EXCEPT !.last = [op |-> "clearSessionExpired",
                                        response |-> NetworkError, before |-> client,
                                        observed |-> calls.observed,
                                        prior |-> calls.last.op]]
    /\ ui' = Rendered([ui EXCEPT !.isSessionExpiredModalOpen = FALSE], client,
                      clearSessionExpired(client), "/login", None, Some("/login"))
    /\ UNCHANGED <<replacing, handling, now, ticks, dbVars, entVars, authVars, AuditLogs,
                   req, resp>>

NextPage ==
    \/ \E pathname \in NavigationHrefs \cup publicPaths, fault \in {"none", "query"} :
          PageLoad(pathname, fault)
    \/ \E c \in Credentials, fault \in {"none", "query"} : handleSubmit(c[1], c[2], fault)
    \/ \E href \in NavigationHrefs, fault \in {"none", "query"} : handleNavClick(href, fault)
    \/ \E fault \in {"none", "query"} : handleLogout(fault)
    \/ Tick(JWT_EXPIRES_IN)

SpecPage == Init /\ [][NextPage]_vars

-----------------------------------------------------------------------------
(* Claims about the session handlers, under SpecAuth *)

\* The sessions whose refresh token a request presents in its cookie
SessionsOfRefreshCookie(request) ==
    {i \in 1..Len(sessions) :
        IsSome(request.refreshToken) /\ sessions[i].refreshToken = Val(request.refreshToken)}

\* C1: after logout has returned, the RefreshTokens row the session's login
\* created has a non-null RevokedAt, and a later POST /auth/refresh presenting
\* that session's refresh token returns no new token pair.
C1_LogoutRevokesRefreshToken ==
    /\ \A i \in 1..Len(sessions) :
          sessions[i].loggedOut => IsSome(RefreshTokens[sessions[i].row].RevokedAt)
    /\ (req.op = "refresh"
          /\ \E i \in SessionsOfRefreshCookie(req.request) : sessions[i].loggedOut)
       => ~IsSome(resp.data)

-----------------------------------------------------------------------------
(* Claims about the gate, under SpecGate *)

\* The request of the last operation carries a token that verifies now
CarriesValidToken ==
    /\ IsSome(ExtractToken(req.request))
    /\ IsSome(verifyToken(Val(ExtractToken(req.request))))

\* The user the request's token names
Caller == Val(verifyToken(Val(ExtractToken(req.request)))).userId

\* The permissions attached to the roles the user holds, read off the tables
GrantedTo(userId) ==
    {PermissionName(rp[2]) : rp \in {x \in RolePermissions : <<userId, x[1]>> \in UserRoles}}

\* C6: requirePermission(request, p) answers 401 "Unauthorized" when the request
\* carries no token or one that fails verification; when the token verifies and
\* the permission set was resolved it answers 403 "Forbidden: Insufficient
\* permissions" if p is not in the set and returns the identity, with no
\* response, if p is in it; the identity is returned in no other case, and a
\* request without a valid token never receives 403.  (When the permission
\* query throws there is no resolved set: getAuthUser returns null and the
\* answer is 401.)
C6_RequirePermissionContract ==
    req.op = "requirePermission" =>
        /\ ~CarriesValidToken =>
              resp.status = 401 /\ resp.error = "Unauthorized" /\ ~IsSome(resp.user)
        /\ (CarriesValidToken /\ req.fault = "none"
              /\ req.permission \notin GrantedTo(Caller)) =>
              /\ resp.status = 403
              /\ resp.error = "Forbidden: Insufficient permissions"
              /\ ~IsSome(resp.user)
        /\ (CarriesValidToken /\ req.fault = "none"
              /\ req.permission \in GrantedTo(Caller)) =>
              /\ resp.success
              /\ IsSome(resp.user)
              /\ Val(resp.user).userId = Caller
        /\ IsSome(resp.user) =>
              CarriesValidToken /\ req.permission \in GrantedTo(Caller)

\* Every branch of the gate has answered: a 403 for a verified token
C6_Witness ==
    /\ req.op = "requirePermission"
    /\ CarriesValidToken
    /\ req.permission \notin GrantedTo(Caller)
    /\ resp.status = 403

\* C7: GET /audit-logs is accepted if and only if the caller's resolved
\* permissions contain audit_logs.read or a permission named users.* or
\* roles.*; GET /users is accepted only with users.read itself, so a user whose
\* only permission is audit_logs.read is accepted by GET /audit-logs and gets
\* 403 from GET /users.
C7_AuditLogsShortcut ==
    /\ (req.op = "GET /audit-logs" /\ CarriesValidToken /\ req.fault # "auth") =>
          (resp.status \notin {401, 403}
             <=> \/ AUDIT_READ \in GrantedTo(Caller)
                 \/ \E p \in GrantedTo(Caller) : Len(p) > 1 /\ p[1] \in {"users", "roles"})
    /\ (req.op = "GET /users" /\ CarriesValidToken /\ req.fault # "auth") =>
          /\ resp.status \notin {401, 403} <=> USERS_READ \in GrantedTo(Caller)
          /\ USERS_READ \notin GrantedTo(Caller) => resp.status = 403

\* A user whose only permission is audit_logs.read has got 403 from GET /users
C7_Witness ==
    /\ req.op = "GET /users"
    /\ CarriesValidToken
    /\ req.fault = "none"
    /\ GrantedTo(Caller) = {AUDIT_READ}
    /\ GetAuditLogsResult(req.request, "none").status = 200
    /\ resp.status = 403

-----------------------------------------------------------------------------
(* Claims about permission resolution, under SpecAdmin *)

\* C8: for every user the gate resolves, the resolved permission set is exactly
\* the union, without duplicates, of the permissions attached to the roles the
\* user holds; a user with no role resolves to the empty set and every
\* requirePermission call for that user is rejected with 403.
C8_ResolvedSetIsUnionOfRoles ==
    (req.op = "requirePermission" /\ CarriesValidToken /\ req.fault = "none") =>
        /\ Range(PermissionQuery(Caller)) = GrantedTo(Caller)
        /\ Len(PermissionQuery(Caller)) = Cardinality(GrantedTo(Caller))
        /\ RolesOf(Caller) = {} => PermissionQuery(Caller) = <<>> /\ resp.status = 403

\* The sessions whose access token the last request carries
SessionsOfAccessToken ==
    {i \in 1..Len(sessions) : sessions[i].accessToken = Val(ExtractToken(req.request))}

\* C9: permissions are not cached: once a permission has been removed from a
\* role or a role from a user, a request of an affected user that requires the
\* removed permission is rejected with 403, even when its access token was
\* issued while the user still held the permission.
C9_RevocationTakesEffect ==
    (/\ req.op = "requirePermission"
     /\ CarriesValidToken
     /\ req.fault = "none"
     /\ \E i \in SessionsOfAccessToken : includes(sessions[i].permissions, req.permission)
     /\ req.permission \notin GrantedTo(Caller))
    => resp.status = 403 /\ ~IsSome(resp.user)

\* A token issued with users.read is refused users.read after the removal
C9_Witness ==
    /\ req.op = "requirePermission"
    /\ CarriesValidToken
    /\ \E i \in SessionsOfAccessToken : includes(sessions[i].permissions, req.permission)
    /\ req.permission \notin GrantedTo(Caller)
    /\ Users[Caller].IsActive
    /\ resp.status = 403

-----------------------------------------------------------------------------
(* Claims about the role API, under SpecRoles *)

\* C10: after any sequence of role API calls every role that is a system role
\* in the seed still exists, is still a system role and still has the RoleName
\* it started with.
C10_SystemRolesKeepName ==
    /\ Roles[1].present
    /\ Roles[1].IsSystem
    /\ Roles[1].RoleName = "Administrator"

-----------------------------------------------------------------------------
(* Claims about the catalog handlers, under SpecVendors *)

CatalogMutations ==
    {"POST /vendors", "PUT /vendors/:id", "DELETE /vendors/:id",
     "POST /products", "PUT /products/:id", "DELETE /products/:id",
     "POST /io-universal", "PUT /io-universal/:id", "DELETE /io-universal/:id",
     "POST /io-mappings", "PUT /io-mappings/:id", "DELETE /io-mappings/:id"}

\* The table the last catalog request works on, as it is now
TableNow ==
    CASE req.entity = "Vendor" -> Vendor
      [] req.entity = "Product" -> Product
      [] req.entity = "IOUniversal" -> IOUniversal
      [] req.entity = "IOMapping" -> IOMapping

\* C2: a POST, PUT or DELETE on vendors, products, io-universal or io-mappings
\* that carries no valid access token is rejected with 401 and leaves the
\* record store unchanged.
C2_MutationsRequireToken ==
    (req.op \in CatalogMutations /\ ~CarriesValidToken) =>
        resp.status = 401 /\ TableNow = req.before

\* C3: every successful POST, PUT or DELETE on a catalog entity appends
\* exactly one new AuditLogs row (the audit insert itself not failing).
C3_SuccessWritesOneAuditRow ==
    (req.op \in CatalogMutations /\ resp.success /\ req.fault = "none") =>
        Len(AuditLogs) = req.audits + 1

SensitiveKeys == {"Password", "PasswordHash", "accessToken", "refreshToken"}

\* C4: no stored OldValue or NewValue JSON contains a Password, PasswordHash,
\* accessToken or refreshToken key, whatever the request body or the old record
\* contained.
C4_AuditSnapshotsCarryNoSecrets ==
    \A i \in 1..Len(AuditLogs) :
        /\ IsSome(AuditLogs[i].OldValue) =>
              KeysOf(Val(AuditLogs[i].OldValue)) \cap SensitiveKeys = {}
        /\ IsSome(AuditLogs[i].NewValue) =>
              KeysOf(Val(AuditLogs[i].NewValue)) \cap SensitiveKeys = {}

\* C5: when the audit step fails, at the insert of the row or at the
\* serialization of a snapshot, a request that succeeds without the failure
\* still returns its success response and its mutation stays in the store.
C5_AuditFailureNeverFailsRequest ==
    (req.op \in CatalogMutations /\ req.fault \in {"audit", "serialize"}
       /\ req.clean.success) =>
        resp.success /\ TableNow = req.clean.table

-----------------------------------------------------------------------------
(* Claims about the client session controller, under SpecClient *)

Probes == {"refreshUser", "checkSession"}

Is401(response) == ~response.network /\ response.status = 401

\* C11: sessionExpired becomes true only when a current-identity probe
\* (refreshUser or checkSession) is answered 401 after the controller has
\* observed a successful authentication (a probe or a login answered with the
\* profile); a 401 answered to a controller that never observed one leaves
\* user = null and sessionExpired = false, and the on-load probe, refreshUser,
\* also ends with isLoading = false.
C11_ExpiredOnlyAfterAuthentication ==
    /\ client.sessionExpired => calls.observed
    /\ (calls.last.op # "none" /\ ~calls.last.before.sessionExpired
          /\ client.sessionExpired) =>
          /\ calls.last.op \in Probes
          /\ Is401(calls.last.response)
          /\ calls.last.observed
    /\ (calls.last.op \in Probes /\ Is401(calls.last.response)
          /\ ~calls.last.observed) =>
          /\ client.user = None
          /\ ~client.sessionExpired
          /\ calls.last.op = "refreshUser" => ~client.isLoading

\* A probe answered 401 after a successful authentication has raised the flag
C11_Witness ==
    /\ calls.last.op \in Probes
    /\ Is401(calls.last.response)
    /\ calls.last.observed
    /\ ~calls.last.before.sessionExpired
    /\ client.sessionExpired

\* C12 as stated: whatever the probe's outcome, checkSession leaves the
\* controller's user (and so isAuthenticated) as it was.
C12_CheckSessionLeavesIdentity ==
    calls.last.op = "checkSession" => client.user = calls.last.before.user

\* C12 as amended: checkSession leaves user and sessionExpired as they were
\* when the probe succeeds, gets an HTTP error other than 401, gets no answer,
\* or gets a 401 while the controller's logged-in mark is clear; a 401 while
\* the mark is set raises sessionExpired and clears user.
C12_CheckSessionClearsIdentityOnExpiryOnly ==
    calls.last.op = "checkSession" =>
        IF Is401(calls.last.response) /\ calls.last.before.wasLoggedInRef
        THEN client.user = None /\ client.sessionExpired
        ELSE /\ client.user = calls.last.before.user
             /\ client.sessionExpired = calls.last.before.sessionExpired

\* checkSession has met a 401 with a user signed in and has signed the user out
C12_Witness ==
    /\ calls.last.op = "checkSession"
    /\ IsSome(calls.last.before.user)
    /\ Is401(calls.last.response)
    /\ client.user = None
    /\ client.sessionExpired

-----------------------------------------------------------------------------
(* Claims about change-password, under SpecPassword *)

\* The new password of the last change-password request is one the handler
\* accepts: given, confirmed, at least 6 characters
ValidNewPassword(body) ==
    /\ truthy(body.newPassword)
    /\ body.confirmPassword = body.newPassword
    /\ Len(Val(body.newPassword)) >= 6

\* The current password of the request is the one stored before the request
CorrectCurrentPassword(body, userId) ==
    /\ truthy(body.currentPassword)
    /\ verifyPassword(Val(body.currentPassword), req.before[userId].PasswordHash)

\* What POST /auth/login answers now for this user and password
LoginStatus(userId, password) ==
    LoginResult(Users[userId].Username, password, "none",
                generateRandomToken(Len(RefreshTokens) + 1)).resp.status

\* C13: for an authenticated active user, change-password with the correct
\* currentPassword and a valid new password succeeds, and login then succeeds
\* with the new password and fails with the old one (the two being different
\* passwords); with an incorrect currentPassword the request fails with 400
\* and the stored PasswordHash is unchanged.  The store does not fail during
\* the request.
C13_ChangePasswordContract ==
    (/\ req.op = "POST /auth/change-password"
     /\ CarriesValidToken
     /\ req.fault \in {"none", "audit"}
     /\ req.before[Caller].present /\ req.before[Caller].IsActive) =>
        /\ (CorrectCurrentPassword(req.body, Caller) /\ ValidNewPassword(req.body)) =>
              /\ resp.status = 200 /\ resp.success
              /\ LoginStatus(Caller, Val(req.body.newPassword)) = 200
              /\ req.body.newPassword # req.body.currentPassword =>
                    LoginStatus(Caller, Val(req.body.currentPassword)) = 401
        /\ ~CorrectCurrentPassword(req.body, Caller) =>
              /\ resp.status = 400
              /\ Users[Caller].PasswordHash = req.before[Caller].PasswordHash

\* A password has been changed: the new one logs in, the old one does not
C13_Witness ==
    /\ req.op = "POST /auth/change-password"
    /\ CarriesValidToken
    /\ resp.success
    /\ req.body.newPassword # req.body.currentPassword
    /\ LoginStatus(Caller, Val(req.body.newPassword)) = 200
    /\ LoginStatus(Caller, Val(req.body.currentPassword)) = 401

-----------------------------------------------------------------------------
(* Claims about login, under SpecLogin *)

\* The last login named no user of the store
NonexistentUsername == UserByUsername(req.username) = {}

\* The last login named a user of the store and gave another password than his
WrongPassword ==
    \E u \in UserByUsername(req.username) :
        ~verifyPassword(req.password, Users[u].PasswordHash)

\* C14: a login with a wrong password for an existing user and a login with a
\* username that does not exist both create no RefreshTokens record, both
\* record a LOGIN_FAILED audit entry and both get the same response, 401 with
\* error 'Invalid credentials'.
C14_FailedLoginsAreAlike ==
    (/\ req.op = "login"
     /\ req.fault = "none"
     /\ req.username # "" /\ req.password # ""
     /\ NonexistentUsername \/ WrongPassword) =>
        /\ RefreshTokens = req.tokens
        /\ Len(AuditLogs) = req.audits + 1
        /\ AuditLogs[Len(AuditLogs)].Action = "LOGIN_FAILED"
        /\ resp.status = 401
        /\ resp.error = "Invalid credentials"

\* The last login gave the password of an active user of the store
ValidCredentials ==
    \E u \in UserByUsername(req.username) :
        Users[u].IsActive /\ verifyPassword(req.password, Users[u].PasswordHash)

\* C15: for every valid username/password pair of an active user, login
\* returns an access token and a refresh token of that user and inserts
\* exactly one RefreshTokens record, for that user, with ExpiresAt = login
\* time + 7 days and RevokedAt null.  The store does not fail during the
\* request.
C15_LoginIssuesTokensAndOneRecord ==
    (req.op = "login" /\ req.fault \in {"none", "audit"} /\ ValidCredentials) =>
        LET userId == CHOOSE u \in UserByUsername(req.username) : TRUE
            row == RefreshTokens[Len(RefreshTokens)]
        IN /\ resp.status = 200 /\ resp.success
           /\ IsSome(resp.data)
           /\ verifyToken(Val(resp.data).accessToken)
                 = Some([userId |-> userId, username |-> req.username])
           /\ verifyToken(Val(resp.data).refreshToken)
                 = Some([userId |-> userId, username |-> req.username])
           /\ Len(RefreshTokens) = Len(req.tokens) + 1
           /\ SubSeq(RefreshTokens, 1, Len(req.tokens)) = req.tokens
           /\ row.UserID = userId
           /\ row.ExpiresAt = req.at + 7 * 24 * 60
           /\ row.RevokedAt = None

\* A valid login after the clock has advanced has inserted its record
C15_Witness ==
    /\ req.op = "login"
    /\ ValidCredentials
    /\ req.at > 0
    /\ resp.success
    /\ Len(RefreshTokens) = Len(req.tokens) + 1
    /\ RefreshTokens[Len(RefreshTokens)].ExpiresAt = now + 7 * 24 * 60

-----------------------------------------------------------------------------
(* Claims about the list endpoints, under SpecLists *)

ListEndpoints == {"GET /vendors", "GET /users", "GET /audit-logs"}

\* C16: for every list endpoint and any page and pageSize values in the query
\* string, a successful response has data.length <= pageSize and totalPages =
\* ceil(total / pageSize), the least number of pages of pageSize rows that
\* hold total rows.
C16_PaginationInvariant ==
    (req.op \in ListEndpoints /\ resp.success) =>
        /\ Len(resp.data) <= resp.pageSize
        /\ resp.totalPages * resp.pageSize >= resp.total
        /\ (resp.totalPages - 1) * resp.pageSize < resp.total

\* A list of more rows than a page holds has been answered with a full page
C16_Witness ==
    /\ req.op \in ListEndpoints
    /\ resp.success
    /\ resp.total > resp.pageSize
    /\ Len(resp.data) = resp.pageSize
    /\ resp.totalPages > 1

-----------------------------------------------------------------------------
(* C17: PUT /roles/:id that passed the gate, reached the UPDATE of an existing
   role and names a role with the RoleName another role has (a request that
   would give two roles the same RoleName) is answered with 400 and leaves the
   Roles table as it was *)

WouldDuplicateRoleName ==
    /\ req.op = "PUT /roles/:id"
    /\ req.fault = "none"
    /\ resp.status \notin {401, 403}
    /\ req.before[req.id].present
    /\ IsSome(req.body.RoleName)
    /\ \E r \in RoleIDs : /\ r # req.id
                          /\ req.before[r].present
                          /\ req.before[r].RoleName = Val(req.body.RoleName)

C17_DuplicateKeysAnswered400 ==
    WouldDuplicateRoleName => (resp.status = 400 /\ Roles = req.before)

-----------------------------------------------------------------------------
(* C18: a failure of the relational store during GET /users or GET /audit-logs,
   sent with a token that verifies, is answered with 500 and success false,
   when the failing query is the handler's own and also when it is the
   permission-resolution query of the authorization gate *)

StoreFailed ==
    /\ req.op \in {"GET /users", "GET /audit-logs"}
    /\ req.fault \in {"auth", "query"}
    /\ CarriesValidToken

C18_StoreFailuresAnswered500 ==
    StoreFailed => (resp.status = 500 /\ ~resp.success)

-----------------------------------------------------------------------------
(* C19: getAuthUser takes the token from the Authorization header when the
   header is 'Bearer <token>' and from the accessToken cookie only otherwise.
   A Bearer token alone decides the outcome: when it fails verification the
   answer is 401 whatever the cookie holds, and when it verifies the request is
   authenticated as the user it names whatever the cookie holds.  Without a
   Bearer token, a cookie that verifies authenticates the request as the user
   it names and a missing or invalid cookie gives 401. *)

HasBearerToken ==
    /\ IsSome(req.request.authorization)
    /\ Val(req.request.authorization).scheme = "Bearer"
    /\ IsSome(Val(req.request.authorization).credentials)

BearerToken == Val(Val(req.request.authorization).credentials)

HasCookieToken == IsSome(req.request.accessToken)

CookieToken == Val(req.request.accessToken)

\* The gate's answer for a request authenticated as the user the token names
AuthenticatedAs(token) ==
    LET userId == Val(verifyToken(token)).userId
    IN /\ resp.status # 401
       /\ resp.success <=> req.permission \in GrantedTo(userId)
       /\ resp.success => Val(resp.user).userId = userId

C19_BearerHeaderBeforeCookie ==
    (req.op = "requirePermission" /\ req.fault = "none") =>
        /\ (HasBearerToken /\ ~IsSome(verifyToken(BearerToken))) => resp.status = 401
        /\ (HasBearerToken /\ IsSome(verifyToken(BearerToken))) =>
              AuthenticatedAs(BearerToken)
        /\ (~HasBearerToken /\ HasCookieToken /\ IsSome(verifyToken(CookieToken))) =>
              AuthenticatedAs(CookieToken)
        /\ (~HasBearerToken /\ ~(HasCookieToken /\ IsSome(verifyToken(CookieToken)))) =>
              resp.status = 401

\* An invalid Bearer token next to a cookie that verifies was answered with 401
C19_Witness ==
    /\ req.op = "requirePermission"
    /\ req.fault = "none"
    /\ HasBearerToken
    /\ ~IsSome(verifyToken(BearerToken))
    /\ HasCookieToken
    /\ IsSome(verifyToken(CookieToken))
    /\ resp.status = 401

-----------------------------------------------------------------------------
(* C20: while a PUT /roles/:id that replaces a role's permissions, or a
   PUT /users/:id that replaces a user's roles, is between its DELETE and its
   response, a request of a user who holds permission p both before the PUT and
   after it is not rejected with 403 by a gate that requires p *)

\* The permissions a user holds, read off the two tables
HeldIn(userRoles, rolePermissions, userId) ==
    {PermissionName(rp[2]) :
        rp \in {x \in rolePermissions : <<userId, x[1]>> \in userRoles}}

\* The tables as the PUT in progress leaves them when every INSERT is done
UserRolesAfter ==
    IF replacing.table = "UserRoles"
    THEN {ur \in replacing.before.UserRoles : ur[1] # replacing.id}
           \cup {<<replacing.id, r>> : r \in Range(replacing.ids)}
    ELSE replacing.before.UserRoles

RolePermissionsAfter ==
    IF replacing.table = "RolePermissions"
    THEN {rp \in replacing.before.RolePermissions : rp[1] # replacing.id}
           \cup {<<replacing.id, p>> : p \in Range(replacing.ids)}
    ELSE replacing.before.RolePermissions

ReplacementSucceeds ==
    IF replacing.table = "RolePermissions"
    THEN Range(replacing.ids) \subseteq PermissionIDs
    ELSE Range(replacing.ids) \subseteq {r \in RoleIDs : Roles[r].present}

C20_ReplacementIsAtomicForTheGate ==
    (/\ replacing.pc = "insert"
     /\ ReplacementSucceeds
     /\ req.op = "requirePermission"
     /\ CarriesValidToken
     /\ req.permission \in HeldIn(replacing.before.UserRoles,
                                  replacing.before.RolePermissions, Caller)
     /\ req.permission \in HeldIn(UserRolesAfter, RolePermissionsAfter, Caller))
        => resp.status # 403

-----------------------------------------------------------------------------
(* C21: access tokens and refresh tokens are not interchangeable: the gate
   answers 401 to a request whose Bearer token or accessToken cookie is a
   refresh token the server signed, and POST /auth/refresh answers 401 to a
   request whose refreshToken cookie is an access token the server signed *)

\* The kind of a token the server signed, told by its lifetime
IsRefreshToken(token) ==
    token.sig = JWT_SECRET /\ token.exp - token.iat = REFRESH_TOKEN_EXPIRES_IN

IsAccessToken(token) ==
    token.sig = JWT_SECRET /\ token.exp - token.iat = JWT_EXPIRES_IN

C21_TokensAreNotInterchangeable ==
    /\ (/\ req.op = "requirePermission"
        /\ IsSome(ExtractToken(req.request))
        /\ IsRefreshToken(Val(ExtractToken(req.request)))) => resp.status = 401
    /\ (/\ req.op = "refresh"
        /\ IsSome(req.request.refreshToken)
        /\ IsAccessToken(Val(req.request.refreshToken))) => resp.status = 401

-----------------------------------------------------------------------------
(* C22: a request whose access token verifies while the user it names is
   deactivated (or no longer in the Users table) is treated as
   unauthenticated: requireAuth and GET /auth/me answer it with 401 *)

CallerIsGone == ~Users[Caller].present \/ ~Users[Caller].IsActive

C22_DeactivatedUserIsUnauthenticated ==
    (/\ req.op \in {"requireAuth", "GET /auth/me"}
     /\ req.fault = "none"
     /\ CarriesValidToken
     /\ CallerIsGone) => resp.status = 401

-----------------------------------------------------------------------------
(* C23: in the UPDATE or DELETE audit row a successful PUT /vendors/:id or
   DELETE /vendors/:id writes, OldValue is the state the vendor had immediately
   before that UPDATE or DELETE was applied, also when another handler changed
   the vendor after this handler's SELECT *)

C23_OldValueIsStateBeforeMutation ==
    (/\ req.op \in {"PUT /vendors/:id", "DELETE /vendors/:id"}
     /\ resp.success
     /\ Len(AuditLogs) = req.audits + 1) =>
        AuditLogs[Len(AuditLogs)].OldValue =
            Some(sanitizeForAudit(Snapshot("VendorID", "VendorName", req.id,
                                           req.before[req.id])))

-----------------------------------------------------------------------------
(* C24: when PUT /users/:id or PUT /roles/:id ends with a 500 response, the
   request has changed no user-role assignment and no role-permission row *)

C24_FailedRequestsChangeNothing ==
    (/\ req.op \in {"PUT /users/:id", "PUT /roles/:id"}
     /\ resp.status = 500
     /\ replacing.pc = "idle") =>
        /\ UserRoles = req.before.UserRoles
        /\ RolePermissions = req.before.RolePermissions

-----------------------------------------------------------------------------
(* C25: when the controller's logout() has completed, the accessToken and
   refreshToken cookies have been cleared, and the probe of /auth/me that
   follows it does not restore the authenticated state; also when the server's
   revocation query fails *)

C25_LogoutClearsTheCookies ==
    /\ calls.last.op = "logout" => cookies = NoCookies
    /\ (calls.last.op = "refreshUser" /\ calls.last.prior = "logout") =>
          ~IsSome(client.user)

-----------------------------------------------------------------------------
(* C26: after logout() has completed, the result of the refreshUser or
   checkSession that follows it, a 401 in particular, does not set
   sessionExpired to true *)

C26_NoExpiryAfterLogout ==
    (/\ calls.last.op \in Probes
     /\ calls.last.prior = "logout"
     /\ ~calls.last.before.sessionExpired) => ~client.sessionExpired

-----------------------------------------------------------------------------
(* Claims about the controller's flags, under SpecClient *)

\* C28: in every reachable state of the client controller, whatever the order
\* in which the answers of in-flight login, logout, refreshUser and
\* checkSession calls and clearSessionExpired arrive, sessionExpired = true
\* implies user = null: the controller never holds an identity and the expiry
\* flag together.
C28_ExpiredImpliesNoUser == client.sessionExpired => ~IsSome(client.user)

\* A probe's 401 has ended an authenticated controller's session while a
\* login is still in flight
C28_Witness ==
    /\ client.sessionExpired
    /\ calls.last.op \in Probes
    /\ IsSome(calls.last.before.user)
    /\ calls.pending["login"] > 0

-----------------------------------------------------------------------------
(* Claims about the pages, under SpecPage *)

\* A probe of an authenticated user has just been answered 401 and has set
\* sessionExpired
SessionJustExpired ==
    /\ calls.last.op \in Probes
    /\ IsSome(calls.last.before.user)
    /\ ~calls.last.before.sessionExpired
    /\ client.sessionExpired

\* C27: when the session of an authenticated user expires (checkSession or
\* refreshUser gets a 401 and sets sessionExpired), the page shows the Navbar's
\* 'Session Expired' modal before the user reaches /login: the page that
\* follows the expiry has the modal open and is not the login page.
C27_ExpiredSessionShowsTheModal ==
    SessionJustExpired => (ui.isSessionExpiredModalOpen /\ ui.pathname # "/login")

\* C29: a Navbar link click by an authenticated user always has a visible
\* outcome: when handleNavClick has finished, either the router was asked to
\* go to the link's target or sessionExpired is true, whatever status
\* /auth/me answered.
C29_NavClickHasAnOutcome ==
    (calls.last.op = "checkSession" /\ IsSome(calls.last.before.user)) =>
        (ui.pushed = ui.clicked \/ client.sessionExpired)

====
